---- MODULE Spec2Model ----
(***************************************************************************)
(* mugfx: the generational resource pool (src/src/shared.hpp), the         *)
(* resource create/destroy entry points, the std140 uniform layout         *)
(* calculator and the uniform data store (src/src/opengl/opengl.cpp).      *)
(*                                                                         *)
(* The model is of a build with assertions enabled: a failing assert()     *)
(* aborts the process (halted = "assert").                                 *)
(***************************************************************************)
EXTENDS Integers, Sequences, FiniteSets, TLC

VARIABLES
    pool,          \* SpecPool: one Pool<T>
    issued,        \* SpecPool: handles insert has returned so far
    live,          \* SpecPool: handles returned by insert and not removed since
    halted,        \* "no", or why the process stopped: "assert", "panic", "crash";
                   \* "shutdown" once mugfx_shutdown has returned
    lastOp,        \* the last API call and what it returned
    panic_handler, \* mugfx_init_params.panic_handler is set
    logging_callback, \* mugfx_init_params.logging_callback is set
    delivered,     \* SpecLog: the messages the logging callback has been called with
    pools,         \* SpecRes: get_pool<Shader>(), get_pool<Texture>(), get_pool<Buffer>()
    glLive,        \* SpecRes: the backend's live object names, per kind
    liveH,         \* SpecRes: handles returned by *_create and not destroyed since
    desc,          \* SpecLayout, SpecUniform: the caller's mugfx_uniform_descriptor
    laidOut,       \* the caller has run the layout calculator on desc
    build,         \* what the build does on x % 0: "trap" (SIGFPE), "identity" (x),
                   \* or "unknown" while no x % 0 has happened
    upool,         \* SpecUniform: get_pool<UniformData>()
    uLive,         \* SpecUniform: handles returned by uniform_data_create, not destroyed since
    current,       \* the statics current_program, current_texture_2d[0], current_vao
    glBound,       \* what the backend has in use: program, texture of unit 0, vertex array
    create_params  \* SpecDefaults: the params struct of a *_create call, and its kind

poolVars == <<pool, issued, live>>
resVars == <<pools, glLive, liveH>>
layoutVars == <<desc, laidOut, build>>
uniVars == <<upool, uLive>>
cfgVars == <<panic_handler, logging_callback>>
logVars == <<delivered>>
drawVars == <<current, glBound>>
argVars == <<create_params>>
vars == <<poolVars, resVars, layoutVars, uniVars, logVars, drawVars, argVars, halted, lastOp,
          cfgVars>>

(***************************************************************************)
(* Bounds of the model                                                     *)
(***************************************************************************)
MaxCapacity == 2      \* pool capacities 1..MaxCapacity
MaxValue == 2         \* stored values 1..MaxValue
MaxGen == 2           \* generations 0..MaxGen of the handles tried by callers
ResCapacity == 2      \* capacity of each resource pool
MaxGLName == 2        \* backend object names 1..MaxGLName
MaxDecls == 2         \* SpecLayout: length of a descriptor's uniforms array
MaxArraySize == 2     \* SpecLayout: array_size is 0 or MaxArraySize
MaxDelivered == 3     \* SpecLog: messages delivered to the logging callback
UniCapacity == 1      \* SpecUniform: capacities 1..UniCapacity of the uniform data pool
MatCapacity == 1      \* SpecMaterial: capacity of the shader pool and of the material pool
MaxInitCapacity == 5  \* SpecPoolInit: init is called with 0..MaxInitCapacity, 65535 or 65536
SizeWidth == 2        \* SpecBuffer: size_t has SizeWidth bits
BufCapacity == 1      \* SpecBuffer: capacity of the buffer pool

(***************************************************************************)
(* Pool<T>  (src/src/shared.hpp)                                           *)
(***************************************************************************)
EmptyIndex == 65535
Null == -1

\* Id(uint32_t id): idx(id & 0xFFFF), gen(id >> 16)
IdOf(key) == [idx |-> key % 65536, gen |-> key \div 65536]

\* Id::combine(): gen << 16 | idx
Combine(id) == id.gen * 65536 + id.idx

\* store_free_list(idx, uint16_t value): the slot's storage holds a link
FreeLink(value) == [tag |-> "free", link |-> value % 65536]

\* store_value(idx, v): the slot's storage holds a T
StoredValue(v) == [tag |-> "value", v |-> v]

\* mutant of PoolInit: every slot starts with generation 0
PoolInitGenZero(capacity) ==
    [capacity |-> capacity,
     ids |-> [i \in 0..(capacity - 1) |-> [idx |-> EmptyIndex, gen |-> 0]],
     data |-> [i \in 0..(capacity - 1) |-> FreeLink(i + 1)],
     free_list_head |-> 0]

\* init(capacity)
PoolInit(capacity) ==
    [capacity |-> capacity,
     ids |-> [i \in 0..(capacity - 1) |-> [idx |-> EmptyIndex, gen |-> 1]],
     data |-> [i \in 0..(capacity - 1) |-> FreeLink(i + 1)],
     free_list_head |-> 0]

PoolContains(p, key) ==
    LET id == IdOf(key)
    IN  id.idx < p.capacity /\ p.ids[id.idx].gen = id.gen

\* get(key): the slot index data_ + idx points to, or Null
PoolGet(p, key) == IF PoolContains(p, key) THEN IdOf(key).idx ELSE Null

\* insert(v): which assertion, if any, stops the call
PoolInsertTrap(p) ==
    IF ~(p.free_list_head < p.capacity) THEN "idx < capacity_"
    ELSE IF p.ids[p.free_list_head].idx # EmptyIndex THEN "ids_[idx].idx == EmptyIndex"
    ELSE "none"

\* insert(v) past its assertions: the pool afterwards
PoolInsert(p, v) ==
    LET idx == p.free_list_head
    IN  [p EXCEPT !.free_list_head = p.data[idx].link,
                  !.data[idx] = StoredValue(v),
                  !.ids[idx].idx = idx]

\* the key insert returns: ids_[idx].combine()
PoolInsertKey(p) == Combine([idx |-> p.free_list_head, gen |-> p.ids[p.free_list_head].gen])

\* mutant of PoolRemove: the call also marks every other slot empty
PoolRemoveMarksAllEmpty(p, key) ==
    LET idx == IdOf(key).idx
    IN  [p EXCEPT !.data[idx] = FreeLink(p.free_list_head),
                  !.free_list_head = idx,
                  !.ids = [i \in 0..(p.capacity - 1) |-> [@[i] EXCEPT !.idx = EmptyIndex]]]

\* remove(key) when contains(key): the pool afterwards
PoolRemove(p, key) ==
    LET idx == IdOf(key).idx
    IN  [p EXCEPT !.data[idx] = FreeLink(p.free_list_head),
                  !.free_list_head = idx,
                  !.ids[idx].idx = EmptyIndex]

\* number of slots marked occupied
Occupied(p) == Cardinality({i \in 0..(p.capacity - 1) : p.ids[i].idx # EmptyIndex})

\* the handles callers try: every generation 0..MaxGen with every index 0..MaxCapacity
Handles == {Combine([idx |-> i, gen |-> g]) : i \in 0..MaxCapacity, g \in 0..MaxGen}

(***************************************************************************)
(* SpecPool: one pool under insert / remove                                *)
(***************************************************************************)
\* the variables of the other specifications, at rest
IdlePool == pool = PoolInit(1) /\ issued = {} /\ live = {}
IdleRes == pools = <<>> /\ glLive = <<>> /\ liveH = <<>>
IdleLayout == desc = <<>> /\ laidOut = FALSE /\ build = "unknown"
IdleUni == upool = PoolInit(1) /\ uLive = {}
IdleLog == logging_callback = FALSE /\ delivered = <<>>
IdleParams == create_params = [kind |-> "none"]

\* static GLuint current_program = 0, current_texture_2d = {}, current_vao = 0, and a
\* context with nothing bound
Unbound == [program |-> 0, texture_2d |-> 0, vao |-> 0]
InitBindings == current = Unbound /\ glBound = Unbound

InitPool ==
    /\ \E c \in 1..MaxCapacity : pool = PoolInit(c)
    /\ issued = {}
    /\ live = {}
    /\ halted = "no"
    /\ lastOp = [op |-> "init"]
    /\ panic_handler = FALSE
    /\ IdleRes /\ IdleLayout /\ IdleUni /\ IdleLog /\ InitBindings
    /\ IdleParams

Insert(v) ==
    /\ halted = "no"
    /\ UNCHANGED <<cfgVars, argVars, logVars, drawVars, resVars, layoutVars, uniVars>>
    /\ LET trap == PoolInsertTrap(pool)
       IN  IF trap # "none"
           THEN /\ halted' = "assert"
                /\ lastOp' = [op |-> "insert", ok |-> FALSE, trap |-> trap,
                              occupied |-> Occupied(pool), key |-> 0]
                /\ UNCHANGED <<pool, issued, live>>
           ELSE /\ pool' = PoolInsert(pool, v)
                /\ issued' = issued \cup {PoolInsertKey(pool)}
                /\ live' = live \cup {PoolInsertKey(pool)}
                /\ lastOp' = [op |-> "insert", ok |-> TRUE, trap |-> trap,
                              occupied |-> Occupied(pool), key |-> PoolInsertKey(pool)]
                /\ UNCHANGED halted

Remove(key) ==
    /\ halted = "no"
    /\ UNCHANGED <<cfgVars, argVars, logVars, drawVars, resVars, layoutVars, uniVars>>
    /\ IF ~PoolContains(pool, key)
       THEN /\ lastOp' = [op |-> "remove", key |-> key, ret |-> FALSE, wasLive |-> key \in live]
            /\ UNCHANGED <<pool, issued, live, halted>>
       ELSE /\ pool' = PoolRemove(pool, key)
            /\ live' = live \ {key}
            /\ lastOp' = [op |-> "remove", key |-> key, ret |-> TRUE, wasLive |-> key \in live]
            /\ UNCHANGED <<issued, halted>>

NextPool ==
    \/ \E v \in 1..MaxValue : Insert(v)
    \/ \E key \in Handles : Remove(key)

SpecPool == InitPool /\ [][NextPool]_vars

(***************************************************************************)
(* Claims about the pool, checked under SpecPool                           *)
(***************************************************************************)

\* C1: a handle returned by insert is accepted by contains and get until the
\* matching remove, and rejected by both (get returns null) in every state
\* after that remove, also after the slot has been reused by a later insert.
C1_HandleRejectedAfterRemove ==
    \A h \in issued :
        /\ h \in live => (PoolContains(pool, h) /\ PoolGet(pool, h) # Null)
        /\ h \notin live => (~PoolContains(pool, h) /\ PoolGet(pool, h) = Null)

\* C3: a pool of capacity N never holds more than N occupied slots; insert
\* succeeds whenever fewer than N entries are live, and an insert attempted
\* while N entries are live stops at the assertion idx < capacity_ (free list
\* head == capacity).
C3_InsertSucceedsUntilFull ==
    /\ Occupied(pool) <= pool.capacity
    /\ lastOp.op = "insert" =>
          /\ lastOp.occupied < pool.capacity => lastOp.ok
          /\ lastOp.occupied = pool.capacity =>
                (~lastOp.ok /\ halted = "assert" /\ lastOp.trap = "idx < capacity_"
                 /\ pool.free_list_head = pool.capacity)

\* C4: handle 0 is reserved as invalid: in every reachable state insert has
\* never returned 0, contains(0) is false and get(0) is null.
C4_HandleZeroInvalid ==
    /\ 0 \notin issued
    /\ (lastOp.op = "insert" /\ lastOp.ok) => lastOp.key # 0
    /\ ~PoolContains(pool, 0)
    /\ PoolGet(pool, 0) = Null

\* C4 witness: an insert has returned a handle for slot 0 after the slot was
\* removed and reused, and the pool still holds it.
C4_Witness ==
    /\ lastOp.op = "insert" /\ lastOp.ok
    /\ IdOf(lastOp.key).idx = 0
    /\ pool.capacity > 1
    /\ pool.free_list_head = pool.capacity
    /\ Occupied(pool) = pool.capacity

\* C22: a successful remove(handle) increments the generation of the slot by
\* one (modulo 2^16), and no insert returns a handle value an earlier insert
\* has returned (fewer than 65536 reuse cycles happen within the bounds).
C22_RemoveIncrementsGeneration ==
    [][/\ (lastOp'.op = "remove" /\ lastOp'.ret) =>
              pool'.ids[IdOf(lastOp'.key).idx].gen
                  = (pool.ids[IdOf(lastOp'.key).idx].gen + 1) % 65536
       /\ (lastOp'.op = "insert" /\ lastOp'.ok) => lastOp'.key \notin issued]_vars

\* C23: get(h) returns a non-null pointer only if slot index(h) holds a live
\* record (its tag index equals its slot index); so no handle is accepted by
\* contains or get on a freshly initialised pool, and get never hands out the
\* storage of a slot that holds a free-list link.
C23_GetOnlyLiveRecords ==
    \A h \in Handles :
        (PoolContains(pool, h) \/ PoolGet(pool, h) # Null) =>
            /\ pool.ids[IdOf(h).idx].idx = IdOf(h).idx
            /\ pool.data[IdOf(h).idx].tag = "value"

\* the slots get_free_list leads through from slot idx, in at most fuel steps,
\* and where the walk stopped: at a value that is no slot (the sentinel of a
\* well-formed list), at a slot that holds a record, or out of fuel
RECURSIVE FreeListWalk(_, _, _)
FreeListWalk(p, idx, fuel) ==
    IF ~(idx < p.capacity) THEN [visited |-> <<>>, end |-> idx, stop |-> "sentinel"]
    ELSE IF p.data[idx].tag # "free" THEN [visited |-> <<>>, end |-> idx, stop |-> "record"]
    ELSE IF fuel = 0 THEN [visited |-> <<>>, end |-> idx, stop |-> "cycle"]
    ELSE LET rest == FreeListWalk(p, p.data[idx].link, fuel - 1)
         IN  [rest EXCEPT !.visited = <<idx>> \o @]

EmptySlots(p) == {i \in 0..(p.capacity - 1) : p.ids[i].idx = EmptyIndex}

\* C24: after any sequence of insert and remove calls (stale and repeated
\* handles included) the links from free_list_head visit every empty slot
\* exactly once and no occupied slot and end at the sentinel N; occupied
\* slots + free-list length = N.
C24_FreeListWellFormed ==
    LET w == FreeListWalk(pool, pool.free_list_head, pool.capacity)
    IN  /\ w.stop = "sentinel"
        /\ w.end = pool.capacity
        /\ {w.visited[k] : k \in 1..Len(w.visited)} = EmptySlots(pool)
        /\ Len(w.visited) = Cardinality(EmptySlots(pool))
        /\ Occupied(pool) + Len(w.visited) = pool.capacity

\* C25: remove(h) with a handle that contains() rejects returns false and
\* leaves the whole pool unchanged; a remove that returns true changes only
\* slot index(h) and free_list_head: every other slot keeps its tag and its
\* storage, and every other handle that was accepted stays accepted.
C25_RemoveFrame ==
    [][lastOp'.op = "remove" =>
          /\ lastOp'.ret = PoolContains(pool, lastOp'.key)
          /\ ~lastOp'.ret => pool' = pool
          /\ lastOp'.ret =>
                /\ pool'.capacity = pool.capacity
                /\ \A i \in 0..(pool.capacity - 1) :
                      i # IdOf(lastOp'.key).idx =>
                          (pool'.ids[i] = pool.ids[i] /\ pool'.data[i] = pool.data[i])
                /\ pool'.free_list_head = IdOf(lastOp'.key).idx
                /\ pool'.ids[IdOf(lastOp'.key).idx].idx = EmptyIndex
                /\ \A h \in live \ {lastOp'.key} :
                      PoolContains(pool', h) /\ PoolGet(pool', h) = IdOf(h).idx]_vars

\* C25 witness: a remove of a live handle has returned true while another
\* handle is live, and that one is still accepted and still holds its record.
C25_Witness ==
    /\ lastOp.op = "remove" /\ lastOp.ret /\ lastOp.wasLive
    /\ \E h \in live :
          /\ h # lastOp.key
          /\ PoolContains(pool, h)
          /\ pool.data[IdOf(h).idx].tag = "value"

(***************************************************************************)
(* SpecPoolInit: a Pool from its construction: init(capacity), then        *)
(* inserts only                                                            *)
(***************************************************************************)
\* T* data_ = nullptr; Id* ids_ = nullptr; size_t capacity_ = 0; size_t free_list_head_ = 0
Unconstructed == [capacity |-> 0, ids |-> <<>>, data |-> <<>>, free_list_head |-> 0]

\* init(capacity): which assertion, if any, stops the call
PoolInitTrap(capacity) ==
    IF capacity > 0 /\ capacity < 65535 THEN "none" ELSE "capacity > 0 && capacity < 0xffff"

\* the capacities init is called with
InitCapacities == (0..MaxInitCapacity) \cup {65535, 65536}

InitPoolInit ==
    /\ pool = Unconstructed
    /\ issued = {}
    /\ live = {}
    /\ halted = "no"
    /\ lastOp = [op |-> "construct"]
    /\ panic_handler = FALSE
    /\ IdleRes /\ IdleLayout /\ IdleUni /\ IdleLog /\ InitBindings
    /\ IdleParams

PoolInitCall(capacity) ==
    /\ halted = "no"
    /\ pool = Unconstructed
    /\ UNCHANGED <<cfgVars, argVars, logVars, drawVars, resVars, layoutVars, uniVars, issued, live>>
    /\ lastOp' = [op |-> "init", capacity |-> capacity, trap |-> PoolInitTrap(capacity)]
    /\ IF PoolInitTrap(capacity) # "none"
       THEN halted' = "assert" /\ UNCHANGED pool
       ELSE pool' = PoolInit(capacity) /\ UNCHANGED halted

NextPoolInit ==
    \/ \E c \in InitCapacities : PoolInitCall(c)
    \/ \E v \in 1..MaxValue : pool # Unconstructed /\ Insert(v)

SpecPoolInit == InitPoolInit /\ [][NextPoolInit]_vars

\* C26: init accepts every capacity c with 0 < c < 65536 without tripping its
\* assertion; afterwards every slot is empty with generation 1, free_list_head
\* is 0 and slot i links to i + 1, slot c - 1 holding the sentinel c; the
\* first c inserts return the slots 0..c-1 in order, each with generation 1.
C26_InitAcceptsCapacity ==
    /\ (lastOp.op = "init" /\ lastOp.capacity > 0 /\ lastOp.capacity < 65536) =>
          /\ halted = "no"
          /\ pool.capacity = lastOp.capacity
          /\ pool.free_list_head = 0
          /\ \A i \in 0..(pool.capacity - 1) :
                /\ pool.ids[i] = [idx |-> EmptyIndex, gen |-> 1]
                /\ pool.data[i] = [tag |-> "free", link |-> i + 1]
    /\ (lastOp.op = "insert" /\ lastOp.occupied < pool.capacity) =>
          /\ lastOp.ok
          /\ lastOp.key = Combine([idx |-> lastOp.occupied, gen |-> 1])

(***************************************************************************)
(* SpecRes: create / destroy of shaders, textures and buffers              *)
(* (src/src/opengl/opengl.cpp). The backend is the set of object names it  *)
(* holds alive, per kind. The three kinds share no state, so a behaviour   *)
(* follows a client that uses one of them: DOMAIN pools is that kind.      *)
(***************************************************************************)
ResKinds == {"shader", "texture", "buffer"}

\* log(): with a panic handler set, a message of severity ERROR calls it and aborts
AfterLogError == IF panic_handler THEN "panic" ELSE "no"

\* names glCreateShader / glGenTextures / glGenBuffers may hand out
FreshNames(kind) == (1..MaxGLName) \ glLive[kind]

\* the backend name a *_destroy reads through the pointer get() returned: the
\* stored one, or any value when the slot holds no live record (a read of
\* storage that holds a free-list link)
ReadNames(p, slot) ==
    IF p.data[slot].tag = "value" THEN {p.data[slot].v.name} ELSE 0..MaxGLName

\* what mugfx_shader_destroy / mugfx_texture_destroy / mugfx_buffer_destroy do:
\* name is the object name read from the slot, err the backend's glGetError()
\* after the delete
DestroyEffect(kind, key, name, err) ==
    LET p == pools[kind]
    IN  IF PoolGet(p, key) = Null
        THEN [pools |-> pools, glLive |-> glLive, liveH |-> liveH,
              halted |-> AfterLogError, calls |-> <<>>, logged |-> TRUE]
        ELSE [pools |-> IF err /\ panic_handler THEN pools
                        ELSE [pools EXCEPT ![kind] = PoolRemove(p, key)],
              glLive |-> [glLive EXCEPT ![kind] = @ \ {name}],
              liveH |-> IF err /\ panic_handler THEN liveH
                        ELSE [liveH EXCEPT ![kind] = @ \ {key}],
              halted |-> IF err THEN AfterLogError ELSE "no",
              calls |-> <<[call |-> "delete", kind |-> kind, name |-> name]>>,
              logged |-> err]

InitRes ==
    /\ \E kind \in ResKinds :
          /\ pools = [k \in {kind} |-> PoolInit(ResCapacity)]
          /\ glLive = [k \in {kind} |-> {}]
          /\ liveH = [k \in {kind} |-> {}]
    /\ panic_handler \in BOOLEAN
    /\ halted = "no"
    /\ lastOp = [op |-> "init"]
    /\ IdlePool /\ IdleLayout /\ IdleUni /\ IdleLog /\ InitBindings
    /\ IdleParams

\* the tail of every *_create: get_pool<T>().insert(record) and return its key;
\* args are the arguments of the call that lastOp records
ResInsertWith(kind, name, record, args) ==
    LET p == pools[kind]
    IN  IF PoolInsertTrap(p) # "none"
        THEN /\ halted' = "assert"
             /\ glLive' = [glLive EXCEPT ![kind] = @ \cup {name}]
             /\ lastOp' = [op |-> "create", kind |-> kind, key |-> 0, calls |-> <<>>] @@ args
             /\ UNCHANGED <<pools, liveH>>
        ELSE /\ pools' = [pools EXCEPT ![kind] = PoolInsert(p, record)]
             /\ glLive' = [glLive EXCEPT ![kind] = @ \cup {name}]
             /\ liveH' = [liveH EXCEPT ![kind] = @ \cup {PoolInsertKey(p)}]
             /\ lastOp' = [op |-> "create", kind |-> kind, key |-> PoolInsertKey(p),
                           calls |-> <<>>] @@ args
             /\ UNCHANGED halted

ResInsertRecord(kind, name, record) == ResInsertWith(kind, name, record, <<>>)

ResInsert(kind, name) == ResInsertRecord(kind, name, [name |-> name])

\* a *_create that logs an error and returns { 0 } with no backend object made
ResFailEarly(kind) ==
    /\ halted' = AfterLogError
    /\ lastOp' = [op |-> "create", kind |-> kind, key |-> 0, calls |-> <<>>]
    /\ UNCHANGED resVars

\* a *_create that logs an error, deletes the object it made and returns { 0 }
ResFailDelete(kind, name) ==
    /\ halted' = AfterLogError
    /\ glLive' = [glLive EXCEPT ![kind] = IF panic_handler THEN @ \cup {name} ELSE @ \ {name}]
    /\ lastOp' = [op |-> "create", kind |-> kind, key |-> 0,
                  calls |-> IF panic_handler THEN <<>>
                            ELSE <<[call |-> "delete", kind |-> kind, name |-> name]>>]
    /\ UNCHANGED <<pools, liveH>>

ShaderOutcomes ==
    {"bad_stage", "no_object", "source_error", "compile_failed", "sampler_name_too_long", "ok"}

\* mugfx_shader_create(params): record is the Shader it stores
ShaderCreateRecord(outcome, record) ==
    /\ halted = "no"
    /\ "shader" \in DOMAIN pools
    /\ UNCHANGED <<poolVars, layoutVars, uniVars, cfgVars, argVars, logVars, drawVars>>
    /\ IF outcome \in {"bad_stage", "no_object"}
       THEN ResFailEarly("shader")
       ELSE \E name \in FreshNames("shader") :
                IF outcome # "ok"
                THEN ResFailDelete("shader", name)
                ELSE ResInsertRecord("shader", name, [record EXCEPT !.name = name])

\* mugfx_shader_create with no samplers and no uniform descriptors
ShaderCreate(outcome) == ShaderCreateRecord(outcome, [name |-> 0])

BufferOutcomes == {"bad_target", "bad_usage", "bind_error", "data_error", "ok"}

\* mugfx_buffer_create; record is the Buffer it inserts (its name filled in
\* here), args the arguments of the call that lastOp records
BufferCreateRecord(outcome, record, args) ==
    /\ halted = "no"
    /\ "buffer" \in DOMAIN pools
    /\ UNCHANGED <<poolVars, layoutVars, uniVars, cfgVars, argVars, logVars, drawVars>>
    /\ IF outcome \in {"bad_target", "bad_usage"}
       THEN ResFailEarly("buffer")
       ELSE \E name \in FreshNames("buffer") :
                IF outcome = "data_error"
                THEN ResFailDelete("buffer", name)
                ELSE IF outcome = "bind_error" /\ panic_handler
                THEN \* bind_buffer logs the error; its result is ignored
                     /\ halted' = "panic"
                     /\ glLive' = [glLive EXCEPT !["buffer"] = @ \cup {name}]
                     /\ lastOp' = [op |-> "create", kind |-> "buffer", key |-> 0,
                                   calls |-> <<>>]
                     /\ UNCHANGED <<pools, liveH>>
                ELSE ResInsertWith("buffer", name, [record EXCEPT !.name = name], args)

\* mugfx_buffer_create, the size of the data left out
BufferCreate(outcome) == BufferCreateRecord(outcome, [name |-> 0], <<>>)

TextureOutcomes ==
    {"bind_failed", "bad_wrap", "bad_filter", "filter_error", "bad_format",
     "teximage_error", "mipmap_error", "ok"}

\* bind_texture(0, GL_TEXTURE_2D, name) without a backend error: current_texture_2d[0]
\* afterwards, and the backend's binding (glBindTexture runs when the cache differs)
BindTextureCurrent(name) == [current EXCEPT !.texture_2d = name]
BindTextureBound(name) ==
    IF name # current.texture_2d THEN [glBound EXCEPT !.texture_2d = name] ELSE glBound

\* glDeleteTextures(1, &name): a bound texture that is deleted is unbound
DeleteTextureBound(bound, name) ==
    IF bound.texture_2d = name THEN [bound EXCEPT !.texture_2d = 0] ELSE bound

\* every failure logs and then runs error_return: mugfx_texture_destroy({ texture })
\* with the backend name in the place of a handle
TextureCreate(outcome) ==
    /\ halted = "no"
    /\ "texture" \in DOMAIN pools
    /\ UNCHANGED <<poolVars, layoutVars, uniVars, cfgVars, argVars, logVars>>
    /\ \E name \in FreshNames("texture") :
          LET failed == outcome = "bind_failed"
              cur == IF failed THEN current ELSE BindTextureCurrent(name)
              bound == IF failed THEN glBound ELSE BindTextureBound(name)
          IN
          \* glBindTexture reports an error only when it is called
          /\ failed => name # current.texture_2d
          /\ current' = cur
          /\ IF outcome = "ok"
             THEN ResInsert("texture", name) /\ glBound' = bound
             ELSE IF panic_handler
             THEN /\ halted' = "panic"
                  /\ glLive' = [glLive EXCEPT !["texture"] = @ \cup {name}]
                  /\ lastOp' = [op |-> "create", kind |-> "texture", key |-> 0, calls |-> <<>>]
                  /\ glBound' = bound
                  /\ UNCHANGED <<pools, liveH>>
             ELSE \E err \in BOOLEAN :
                  LET made == [glLive EXCEPT !["texture"] = @ \cup {name}]
                      p == pools["texture"]
                  IN  IF PoolGet(p, name) = Null
                      THEN /\ glLive' = made
                           /\ lastOp' = [op |-> "create", kind |-> "texture", key |-> 0,
                                         calls |-> <<>>]
                           /\ glBound' = bound
                           /\ UNCHANGED <<pools, liveH, halted>>
                      ELSE \E read \in ReadNames(p, PoolGet(p, name)) :
                           /\ glLive' = [made EXCEPT !["texture"] = @ \ {read}]
                           /\ pools' = [pools EXCEPT !["texture"] = PoolRemove(p, name)]
                           /\ liveH' = [liveH EXCEPT !["texture"] = @ \ {name}]
                           /\ lastOp' = [op |-> "create", kind |-> "texture", key |-> 0,
                                         calls |-> <<[call |-> "delete", kind |-> "texture",
                                                      name |-> read]>>]
                           /\ glBound' = DeleteTextureBound(bound, read)
                           /\ UNCHANGED halted

\* mugfx_shader_destroy, mugfx_texture_destroy, mugfx_buffer_destroy,
\* mugfx_material_destroy, mugfx_geometry_destroy
Destroy(kind, key) ==
    /\ halted = "no"
    /\ kind \in DOMAIN pools
    /\ UNCHANGED <<poolVars, layoutVars, uniVars, cfgVars, argVars, logVars, current>>
    /\ LET p == pools[kind]
       IN  \E err \in BOOLEAN :
           \E name \in (IF PoolGet(p, key) = Null THEN {0} ELSE ReadNames(p, PoolGet(p, key))) :
              LET e == DestroyEffect(kind, key, name, err)
              IN  /\ pools' = e.pools
                  /\ glLive' = e.glLive
                  /\ liveH' = e.liveH
                  /\ halted' = e.halted
                  /\ glBound' = IF kind = "texture" /\ e.calls # <<>>
                                THEN DeleteTextureBound(glBound, name) ELSE glBound
                  /\ lastOp' = [op |-> "destroy", kind |-> kind, key |-> key,
                                wasLive |-> key \in liveH[kind],
                                calls |-> e.calls, logged |-> e.logged]

\* mugfx_shutdown(): gladLoaderUnloadGL() and nothing else
Shutdown ==
    /\ halted = "no"
    /\ halted' = "shutdown"
    /\ lastOp' = [op |-> "shutdown"]
    /\ UNCHANGED <<poolVars, resVars, layoutVars, uniVars, cfgVars, argVars, logVars, drawVars>>

NextRes ==
    \/ Shutdown
    \/ \E o \in ShaderOutcomes : ShaderCreate(o)
    \/ \E o \in TextureOutcomes : TextureCreate(o)
    \/ \E o \in BufferOutcomes : BufferCreate(o)
    \/ \E kind \in ResKinds, key \in Handles : Destroy(kind, key)

SpecRes == InitRes /\ [][NextRes]_vars

\* C2: a *_destroy called with a handle that identifies no live resource
\* (handle 0, a handle never issued, a handle already destroyed) only logs:
\* it issues no backend delete and leaves the pools as they were.
C2_DestroyInvalidIsNoOp ==
    [][(lastOp'.op = "destroy" /\ lastOp'.key \notin liveH[lastOp'.kind])
         => (lastOp'.calls = <<>> /\ lastOp'.logged /\ pools' = pools /\ glLive' = glLive)]_vars

\* C14: whenever mugfx_texture_create returns handle 0 after the backend
\* texture object was generated (invalid wrap, filter or format enum, or a
\* backend error), that object has been deleted before the return and the
\* texture pool is unchanged.
C14_TextureCreateCleansUp ==
    [][(lastOp'.op = "create" /\ lastOp'.kind = "texture" /\ lastOp'.key = 0
            /\ halted' = "no")
         => (glLive' = glLive /\ pools' = pools)]_vars

\* C18: the panic handler is invoked, or the process trapped or aborted, only
\* by an insert into a pool whose free list is exhausted; validation errors
\* and backend errors never get there, with or without a panic handler.
C18_OnlyFullInsertIsFatal ==
    [][(halted = "no" /\ halted' \in {"assert", "panic", "crash"})
         => (/\ lastOp'.op = "create"
             /\ pools[lastOp'.kind].free_list_head = pools[lastOp'.kind].capacity)]_vars

\* C20: after mugfx_shutdown has returned, the backend object of every
\* resource that was still live in a pool has been released and no handle
\* issued before is accepted by its pool.
C20_ShutdownDestroysAll ==
    (lastOp.op = "shutdown") =>
        \A kind \in DOMAIN pools : \A h \in liveH[kind] :
            /\ ~PoolContains(pools[kind], h)
            /\ pools[kind].data[IdOf(h).idx].v.name \notin glLive[kind]

(***************************************************************************)
(* The std140 layout calculator (src/src/opengl/opengl.cpp)                *)
(***************************************************************************)
ScalarTypes == {"FLOAT", "INT", "UINT"}
Vec2Types == {"VEC2", "IVEC2", "UVEC2"}
Vec3Types == {"VEC3", "IVEC3", "UVEC3"}
Vec4Types == {"VEC4", "IVEC4", "UVEC4"}
MatTypes == {"MAT2", "MAT3", "MAT4", "MAT2X3", "MAT3X2", "MAT2X4", "MAT4X2", "MAT3X4", "MAT4X3"}
UniformTypes == ScalarTypes \cup Vec2Types \cup Vec3Types \cup Vec4Types \cup MatTypes

\* type 0 ends a declaration list; "INVALID" is a tag outside the enumeration
NoType == "NONE"
InvalidType == "INVALID"
NullName == "<null>"

\* a matrix is laid out as an array of column vectors: <<column type, columns>>
MatColumns(type) ==
    CASE type = "MAT2" -> <<"VEC2", 2>>
      [] type = "MAT3" -> <<"VEC3", 3>>
      [] type = "MAT4" -> <<"VEC4", 4>>
      [] type = "MAT2X3" -> <<"VEC3", 2>>
      [] type = "MAT3X2" -> <<"VEC2", 3>>
      [] type = "MAT2X4" -> <<"VEC4", 2>>
      [] type = "MAT4X2" -> <<"VEC2", 4>>
      [] type = "MAT3X4" -> <<"VEC4", 3>>
      [] type = "MAT4X3" -> <<"VEC3", 4>>

\* get_uniform_size(type, array_size)
RECURSIVE GetUniformSize(_, _)
GetUniformSize(type, array_size) ==
    IF array_size > 0
    THEN IF type \in ScalarTypes \cup Vec2Types \cup Vec3Types \cup Vec4Types
         THEN GetUniformSize("VEC4", 0) * array_size
         ELSE IF type \in MatTypes
         THEN GetUniformSize(MatColumns(type)[1], MatColumns(type)[2] * array_size)
         ELSE 0
    ELSE IF type \in ScalarTypes THEN 4
         ELSE IF type \in Vec2Types THEN 2 * 4
         ELSE IF type \in {"VEC3", "IVEC3", "IVEC4"} THEN 3 * 4
         ELSE IF type \in {"VEC4", "UVEC3", "UVEC4"} THEN 4 * 4
         ELSE IF type \in MatTypes
         THEN GetUniformSize(MatColumns(type)[1], MatColumns(type)[2])
         ELSE 0

\* mutant of GetUniformAlignment: a three-component vector is aligned to its size
RECURSIVE GetUniformAlignmentVec3Packed(_, _)
GetUniformAlignmentVec3Packed(type, array_size) ==
    IF array_size > 0
    THEN GetUniformAlignmentVec3Packed("VEC4", 0)
    ELSE IF type \in ScalarTypes THEN GetUniformSize(type, 0)
         ELSE IF type \in Vec2Types THEN 2 * GetUniformSize("FLOAT", 0)
         ELSE IF type \in Vec3Types THEN 3 * GetUniformSize("FLOAT", 0)
         ELSE IF type \in Vec4Types THEN 4 * GetUniformSize("FLOAT", 0)
         ELSE IF type \in MatTypes THEN 4 * GetUniformSize("FLOAT", 0)
         ELSE 0

\* get_uniform_alignment(type, array_size)
RECURSIVE GetUniformAlignment(_, _)
GetUniformAlignment(type, array_size) ==
    IF array_size > 0
    THEN GetUniformAlignment("VEC4", 0)
    ELSE IF type \in ScalarTypes THEN GetUniformSize(type, 0)
         ELSE IF type \in Vec2Types THEN 2 * GetUniformSize("FLOAT", 0)
         ELSE IF type \in Vec3Types \cup Vec4Types THEN 4 * GetUniformSize("FLOAT", 0)
         ELSE IF type \in MatTypes THEN 4 * GetUniformSize("FLOAT", 0)
         ELSE 0

\* offset % alignment; with alignment 0 a build that does not trap yields offset
Mod(offset, alignment) == IF alignment = 0 THEN offset ELSE offset % alignment

\* mutant of Align: rounds down to the alignment
AlignDown(offset, alignment) ==
    LET misalignment == Mod(offset, alignment)
    IN  IF misalignment = 0 THEN offset ELSE offset - misalignment

\* align(offset, alignment)
Align(offset, alignment) ==
    LET misalignment == Mod(offset, alignment)
    IN  IF misalignment = 0 THEN offset ELSE offset + alignment - misalignment

\* mutant of LayoutStart: the running offset starts at the descriptor's old size
LayoutStartAtOldSize(d) == d.size

\* size_t offset = 0
LayoutStart(d) == 0

\* the loop of mugfx_uniform_descriptor_calculate_layout from member i on, in a
\* build that does b on a modulo by zero; trapped: the build stopped there
RECURSIVE LayoutLoop(_, _, _, _, _)
LayoutLoop(us, i, offset, max_alignment, b) ==
    IF i > Len(us) \/ us[i].name = NullName \/ us[i].type = NoType
    THEN [uniforms |-> us, offset |-> offset, max_alignment |-> max_alignment,
          trapped |-> FALSE, modzero |-> FALSE]
    ELSE LET uniform_alignment == GetUniformAlignment(us[i].type, us[i].array_size)
             aligned == Align(offset, uniform_alignment)
         IN  IF uniform_alignment = 0 /\ b = "trap"
             THEN [uniforms |-> us, offset |-> offset, max_alignment |-> max_alignment,
                   trapped |-> TRUE, modzero |-> TRUE]
             ELSE LET rest == LayoutLoop([us EXCEPT ![i].offset = aligned], i + 1,
                                  aligned + GetUniformSize(us[i].type, us[i].array_size),
                                  IF uniform_alignment > max_alignment
                                  THEN uniform_alignment ELSE max_alignment, b)
                  IN  [rest EXCEPT !.modzero = @ \/ uniform_alignment = 0]

\* mugfx_uniform_descriptor_calculate_layout(d) in a build that does b on a modulo
\* by zero: the descriptor afterwards, whether the call trapped, whether it
\* took a modulo by zero
CalculateLayout(d, b) ==
    LET r == LayoutLoop(d.uniforms, 1, LayoutStart(d), 0, b)
    IN  IF r.trapped \/ (r.max_alignment = 0 /\ b = "trap")
        THEN [desc |-> [d EXCEPT !.uniforms = r.uniforms], trapped |-> TRUE,
              modzero |-> TRUE]
        ELSE [desc |-> [uniforms |-> r.uniforms, size |-> Align(r.offset, r.max_alignment)],
              trapped |-> FALSE, modzero |-> r.modzero \/ r.max_alignment = 0]

\* the declared members: the prefix the calculator's loop walks
RECURSIVE DeclaredCount(_, _)
DeclaredCount(us, i) ==
    IF i > Len(us) \/ us[i].name = NullName \/ us[i].type = NoType
    THEN i - 1
    ELSE DeclaredCount(us, i + 1)

\* what the build does on x % 0 is fixed the first time it happens
Builds == {"trap", "identity"}
BuildChoices == IF build = "unknown" THEN Builds ELSE {build}

(***************************************************************************)
(* SpecLayout: the calculator run, and run again, on every descriptor of   *)
(* up to MaxDecls members whose offsets and size hold the value Leftover   *)
(***************************************************************************)
ZeroDecl == [name |-> NullName, type |-> NoType, array_size |-> 0, offset |-> 0]
MemberNames == <<"u1", "u2", "u3", "u4">>
Leftover == 7
ArraySizes == {0, MaxArraySize}

Decl(name, type) == [name |-> name, type |-> type, array_size |-> 0, offset |-> 0]

\* the descriptor of a float, a vec3 and a mat4
FloatVec3Mat4 == <<Decl("a", "FLOAT"), Decl("b", "VEC3"), Decl("c", "MAT4")>>

InitLayout ==
    /\ \/ \E k \in 0..MaxDecls :
          \E ts \in [1..k -> UniformTypes \cup {InvalidType}] :
          \E as \in [1..k -> ArraySizes] :
             desc = [uniforms |-> [i \in 1..MaxDecls |->
                                     IF i <= k
                                     THEN [name |-> MemberNames[i], type |-> ts[i],
                                           array_size |-> as[i], offset |-> Leftover]
                                     ELSE ZeroDecl],
                     size |-> Leftover]
       \/ desc = [uniforms |-> [i \in DOMAIN FloatVec3Mat4 |->
                                  [FloatVec3Mat4[i] EXCEPT !.offset = Leftover]],
                  size |-> Leftover]
    /\ build = "unknown"
    /\ laidOut = FALSE
    /\ halted = "no"
    /\ lastOp = [op |-> "init"]
    /\ panic_handler = FALSE
    /\ IdlePool /\ IdleRes /\ IdleUni /\ IdleLog /\ InitBindings
    /\ IdleParams

\* a call of mugfx_uniform_descriptor_calculate_layout(&desc)
RunCalculateLayout ==
    /\ halted = "no"
    /\ \E b \in BuildChoices :
          LET r == CalculateLayout(desc, b)
          IN  /\ desc' = r.desc
              /\ halted' = IF r.trapped THEN "crash" ELSE "no"
              /\ build' = IF r.modzero THEN b ELSE build
    /\ laidOut' = TRUE
    /\ lastOp' = [op |-> "calculate_layout", again |-> laidOut]
    /\ UNCHANGED <<cfgVars, argVars, logVars, drawVars, poolVars, resVars, uniVars>>

NextLayout == RunCalculateLayout

SpecLayout == InitLayout /\ [][NextLayout]_vars

(***************************************************************************)
(* Claims about the layout calculator, checked under SpecLayout            *)
(***************************************************************************)
\* the declared members of desc
Declared == 1..DeclaredCount(desc.uniforms, 1)
AllValid == \A i \in Declared : desc.uniforms[i].type \in UniformTypes

\* the alignment the layout rules require of a member: 4 for a scalar, 8 for a
\* two-component vector, 16 for three- and four-component vectors, matrices
\* and every array
RequiredAlignment(u) ==
    IF u.array_size > 0 THEN 16
    ELSE IF u.type \in ScalarTypes THEN 4
    ELSE IF u.type \in Vec2Types THEN 8
    ELSE 16

\* the least multiple of a that is >= x
RoundUp(x, a) == ((x + a - 1) \div a) * a

MaxOf(S) == CHOOSE x \in S : \A y \in S : y <= x

\* the size the layout rules give a member: 4 for a scalar, 4 per component for
\* a vector, 16 per column for a matrix, 16 per element for an array (16 per
\* column and element for an array of matrices)
RuleSize(type, array_size) ==
    LET columns == IF type \in MatTypes THEN MatColumns(type)[2] ELSE 1
    IN  IF array_size > 0 THEN array_size * columns * 16
        ELSE IF type \in ScalarTypes THEN 4
        ELSE IF type \in Vec2Types THEN 8
        ELSE IF type \in Vec3Types THEN 12
        ELSE IF type \in Vec4Types THEN 16
        ELSE columns * 16

\* C7: for every non-empty list of valid types the computed offsets are
\* non-decreasing in declaration order, every offset is a multiple of its
\* member's required alignment, and the total size is the end of the last
\* member rounded up to the largest alignment among the members.
C7_LayoutInvariant ==
    (laidOut /\ halted = "no" /\ Declared # {} /\ AllValid) =>
        LET us == desc.uniforms
            n == DeclaredCount(us, 1)
        IN  /\ \A i \in 1..(n - 1) : us[i].offset <= us[i + 1].offset
            /\ \A i \in 1..n : us[i].offset % RequiredAlignment(us[i]) = 0
            /\ desc.size = RoundUp(us[n].offset + RuleSize(us[n].type, us[n].array_size),
                                   MaxOf({RequiredAlignment(us[i]) : i \in 1..n}))

\* C7 witness: a float followed by a vec3 has been laid out: the vec3 was moved
\* up to offset 16 and the size rounded up to 32.
C7_Witness ==
    /\ laidOut /\ halted = "no"
    /\ DeclaredCount(desc.uniforms, 1) = 2
    /\ desc.uniforms[1].type = "FLOAT" /\ desc.uniforms[1].array_size = 0
    /\ desc.uniforms[2].type = "VEC3" /\ desc.uniforms[2].array_size = 0
    /\ desc.uniforms[2].offset = 16
    /\ desc.size = 32

\* C8: get_uniform_size agrees with the layout rules for every type tag and
\* array length: 4 for a scalar; 8, 12, 16 for 2-, 3-, 4-component vectors of
\* every base type; 16 per matrix column; n x 16 for an array of n elements.
C8_SizeFollowsRules ==
    \A i \in Declared :
        desc.uniforms[i].type \in UniformTypes =>
            GetUniformSize(desc.uniforms[i].type, desc.uniforms[i].array_size)
                = RuleSize(desc.uniforms[i].type, desc.uniforms[i].array_size)

\* C9: the descriptor [float, vec3, mat4] (no member an array) is laid out
\* with offsets 0, 16, 32 and a total size of 96.
C9_FloatVec3Mat4 ==
    (laidOut /\ halted = "no"
        /\ [i \in DOMAIN desc.uniforms |-> desc.uniforms[i].type] = <<"FLOAT", "VEC3", "MAT4">>
        /\ \A i \in DOMAIN desc.uniforms : desc.uniforms[i].array_size = 0)
      => (/\ [i \in DOMAIN desc.uniforms |-> desc.uniforms[i].offset] = <<0, 16, 32>>
          /\ desc.size = 96)

\* C9 witness: the calculator has run on the descriptor [float, vec3, mat4].
C9_Witness ==
    /\ laidOut /\ halted = "no" /\ lastOp.op = "calculate_layout"
    /\ [i \in DOMAIN desc.uniforms |-> desc.uniforms[i].type] = <<"FLOAT", "VEC3", "MAT4">>
    /\ \A i \in DOMAIN desc.uniforms : desc.uniforms[i].array_size = 0
    /\ desc.size > 0

\* a descriptor with its computed fields cleared
Cleared(d) == [uniforms |-> [i \in DOMAIN d.uniforms |-> [d.uniforms[i] EXCEPT !.offset = 0]],
               size |-> 0]

\* C10: the calculator is idempotent and deterministic: a run on a descriptor
\* that is already laid out leaves offsets and size as they are, and what a
\* run computes does not depend on the offsets and size held before it.
C10_LayoutIdempotent ==
    [][halted' = "no" =>
          /\ laidOut => desc' = desc
          /\ desc' = CalculateLayout(Cleared(desc), build').desc]_vars

\* C10 witness: the calculator has run a second time on a laid-out descriptor
\* of two members, the second of which had to be moved up.
C10_Witness ==
    /\ lastOp.op = "calculate_layout" /\ lastOp.again /\ halted = "no"
    /\ DeclaredCount(desc.uniforms, 1) = 2
    /\ desc.uniforms[2].offset = 16
    /\ desc.uniforms[1].type = "VEC2"

\* C29: mugfx_uniform_descriptor_calculate_layout never evaluates
\* align(offset, alignment) with alignment 0: for every descriptor, an empty
\* one and one with a type tag outside the enumeration included, the call
\* completes without a modulo by zero, and an empty descriptor gets size 0.
C29_NoAlignByZero ==
    lastOp.op = "calculate_layout" =>
        /\ build = "unknown"
        /\ halted = "no"
        /\ DeclaredCount(desc.uniforms, 1) = 0 => desc.size = 0

(***************************************************************************)
(* SpecUniform: the uniform data store. The caller owns one descriptor,    *)
(* may run the layout calculator on it, and creates, sets and destroys     *)
(* uniform data objects through handles.                                   *)
(***************************************************************************)
\* a name of 128 characters
LongName == "<a name of 128 characters>"

\* StackString<>::create(src) returns a string: strlen(src) < Size
StackStringCreate(src) == src # LongName

\* the descriptors callers declare
Catalogue ==
    { FloatVec3Mat4,
      <<Decl("v", "VEC2"), Decl("tex", "INT"), ZeroDecl>>,
      <<Decl("color", "VEC4"), Decl(LongName, "FLOAT"), ZeroDecl>>,
      <<Decl("color", "VEC4"), ZeroDecl, ZeroDecl>> }

\* UniformMetadata of a value-initialized UniformData
EmptyMetadata == [name |-> "", type |-> NoType, array_size |-> 0, offset |-> 0]

\* the metadata loop of mugfx_uniform_data_create from member i on: the
\* metadata array, and whether every name fitted a StackString
RECURSIVE MetadataLoop(_, _, _)
MetadataLoop(us, i, metadata) ==
    IF i > Len(us) \/ us[i].type = NoType THEN [ok |-> TRUE, metadata |-> metadata]
    ELSE IF us[i].name # NullName /\ ~StackStringCreate(us[i].name)
    THEN [ok |-> FALSE, metadata |-> metadata]
    ELSE MetadataLoop(us, i + 1,
             [metadata EXCEPT ![i] = [name |-> IF us[i].name = NullName THEN ""
                                               ELSE us[i].name,
                                      type |-> us[i].type,
                                      array_size |-> us[i].array_size,
                                      offset |-> us[i].offset]])

\* get_uniform_index(ub, name): the first member of that name, or Null
GetUniformIndex(metadata, name) ==
    LET found == {i \in DOMAIN metadata : metadata[i].type # NoType /\ metadata[i].name = name}
    IN  IF found = {} THEN Null ELSE CHOOSE i \in found : \A j \in found : i <= j

\* get_float_uniform_data_size(type)
GetFloatUniformDataSize(type) ==
    CASE type = "FLOAT" -> 4
      [] type = "VEC2" -> 2 * 4
      [] type = "VEC3" -> 3 * 4
      [] type = "VEC4" -> 4 * 4
      [] type = "MAT2" -> 2 * 2 * 4
      [] type = "MAT3" -> 3 * 3 * 4
      [] type = "MAT4" -> 4 * 4 * 4
      [] type \in {"MAT2X3", "MAT3X2"} -> 2 * 3 * 4
      [] type \in {"MAT2X4", "MAT4X2"} -> 2 * 4 * 4
      [] type \in {"MAT3X4", "MAT4X3"} -> 3 * 4 * 4
      [] OTHER -> 0

\* mutant of Memcpy: the copy stops one byte short
MemcpyShort(data, offset, bytes) ==
    [i \in 1..Len(data) |->
        IF offset < i /\ i < offset + Len(bytes) THEN bytes[i - offset] ELSE data[i]]

\* std::memcpy(dest + offset, bytes, Len(bytes)) within a buffer
Memcpy(data, offset, bytes) ==
    [i \in 1..Len(data) |->
        IF offset < i /\ i <= offset + Len(bytes) THEN bytes[i - offset] ELSE data[i]]

\* the bytes of a uint32_t in memory
Bytes32(x) == [i \in 1..4 |-> (x \div (256 ^ (i - 1))) % 256]

\* the caller's slice: the bytes 1, 2, ..., length
Slice(length) == [i \in 1..length |-> i % 256]

\* the handles, names, slices and texture handles callers pass
\* (the first two members, and no member; the sizes of the first two members)
UniHandles ==
    {Combine([idx |-> i, gen |-> 1]) : i \in 0..UniCapacity}
        \cup {0, Combine([idx |-> 0, gen |-> 2])}
TriedNames == ({desc.uniforms[i].name : i \in 1..2} \ {NullName}) \cup {"nope"}
SliceLengths ==
    ({GetFloatUniformDataSize(desc.uniforms[i].type) : i \in 1..2}
        \cup {GetFloatUniformDataSize("FLOAT")}) \ {0}
TextureIds == {Combine([idx |-> 0, gen |-> 1])}

\* the bytes of the float 0.0 or 1.0 (0x3F800000) in memory
Float32Bytes(x) == IF x = 1 THEN Bytes32(1065353216) ELSE Bytes32(0)

\* the caller's float[4] {1, 0, 0, 1} as a slice
Red == Float32Bytes(1) \o Float32Bytes(0) \o Float32Bytes(0) \o Float32Bytes(1)

Slices == {Slice(length) : length \in SliceLengths} \cup {s \in {Red} : Len(s) \in SliceLengths}

InitUniform ==
    /\ \E us \in Catalogue : desc = [uniforms |-> us, size |-> 0]
    /\ laidOut = FALSE
    /\ build = "unknown"
    /\ \E c \in 1..UniCapacity : upool = PoolInit(c)
    /\ uLive = {}
    /\ panic_handler \in BOOLEAN
    /\ halted = "no"
    /\ lastOp = [op |-> "init"]
    /\ IdlePool /\ IdleRes /\ IdleLog /\ InitBindings
    /\ IdleParams

\* mugfx_uniform_data_create({.descriptor = address}), d the descriptor at that address
UniformDataCreateFrom(address, d) ==
    /\ halted = "no"
    /\ \E b \in BuildChoices :
          LET r == CalculateLayout(d, b)
              named == MetadataLoop(d.uniforms, 1,
                                    [i \in DOMAIN d.uniforms |-> EmptyMetadata])
              ub == [descriptor |-> address, metadata |-> named.metadata,
                     size |-> r.desc.size, data |-> [i \in 1..r.desc.size |-> 0]]
          IN  /\ build' = IF r.modzero THEN b ELSE build
              /\ IF r.trapped
                 THEN /\ halted' = "crash"
                      /\ lastOp' = [op |-> "uniform_data_create", key |-> 0, logged |-> FALSE]
                      /\ UNCHANGED uniVars
                 ELSE IF ~named.ok
                 THEN /\ halted' = AfterLogError
                      /\ lastOp' = [op |-> "uniform_data_create", key |-> 0, logged |-> TRUE]
                      /\ UNCHANGED uniVars
                 ELSE IF PoolInsertTrap(upool) # "none"
                 THEN /\ halted' = "assert"
                      /\ lastOp' = [op |-> "uniform_data_create", key |-> 0, logged |-> FALSE]
                      /\ UNCHANGED uniVars
                 ELSE /\ upool' = PoolInsert(upool, ub)
                      /\ uLive' = uLive \cup {PoolInsertKey(upool)}
                      /\ halted' = "no"
                      /\ lastOp' = [op |-> "uniform_data_create",
                                    key |-> PoolInsertKey(upool), logged |-> FALSE]
    /\ UNCHANGED <<desc, laidOut, cfgVars, argVars, logVars, drawVars, poolVars, resVars>>

\* mugfx_uniform_data_create({.descriptor = &desc})
UniformDataCreate == UniformDataCreateFrom("&desc", desc)

\* how a setter ends: "logged" (log_error and return), "written" (the memcpy
\* ran), or, when it used storage that holds no object, also "crash" and
\* "silent" (it returned, nothing logged, no object changed)
SetEnds(op, h, name, bytes, outcome, p) ==
    /\ upool' = p
    /\ halted' = CASE outcome = "logged" -> AfterLogError
                   [] outcome = "crash" -> "crash"
                   [] OTHER -> "no"
    /\ lastOp' = [op |-> op, key |-> h, name |-> name, bytes |-> bytes, outcome |-> outcome]
    /\ UNCHANGED <<uLive, cfgVars, argVars, logVars, drawVars, poolVars, resVars, layoutVars>>

\* the outcomes of a setter that reads a UniformData out of storage that holds none
DeadSlotOutcomes == {"crash", "logged", "silent"}

\* mugfx_uniform_data_set_float(h, name, {bytes, Len(bytes)})
SetFloat(h, name, bytes) ==
    /\ halted = "no"
    /\ LET slot == PoolGet(upool, h)
       IN  IF slot = Null THEN SetEnds("set_float", h, name, bytes, "logged", upool)
           ELSE IF upool.data[slot].tag # "value"
           THEN \E o \in DeadSlotOutcomes : SetEnds("set_float", h, name, bytes, o, upool)
           ELSE LET ub == upool.data[slot].v
                    idx == GetUniformIndex(ub.metadata, name)
                    data_size == IF idx = Null THEN 0
                                 ELSE GetFloatUniformDataSize(ub.metadata[idx].type)
                IN  IF idx = Null \/ data_size = 0 \/ Len(bytes) # data_size
                    THEN SetEnds("set_float", h, name, bytes, "logged", upool)
                    ELSE IF Len(bytes) > ub.size
                    THEN \E o \in {"crash", "silent"} :
                            SetEnds("set_float", h, name, bytes, o, upool)
                    ELSE SetEnds("set_float", h, name, bytes, "written",
                                 [upool EXCEPT !.data[slot].v.data = Memcpy(@, 0, bytes)])

\* mugfx_uniform_data_set_texture(h, name, {texture})
SetTexture(h, name, texture) ==
    /\ halted = "no"
    /\ LET slot == PoolGet(upool, h)
           bytes == Bytes32(texture)
       IN  IF slot = Null THEN SetEnds("set_texture", h, name, bytes, "logged", upool)
           ELSE IF upool.data[slot].tag # "value"
           THEN \E o \in DeadSlotOutcomes : SetEnds("set_texture", h, name, bytes, o, upool)
           ELSE LET ub == upool.data[slot].v
                    idx == GetUniformIndex(ub.metadata, name)
                IN  IF idx = Null \/ ub.metadata[idx].type # "INT"
                    THEN SetEnds("set_texture", h, name, bytes, "logged", upool)
                    ELSE IF Len(bytes) > ub.size
                    THEN \E o \in {"crash", "silent"} :
                            SetEnds("set_texture", h, name, bytes, o, upool)
                    ELSE SetEnds("set_texture", h, name, bytes, "written",
                                 [upool EXCEPT !.data[slot].v.data = Memcpy(@, 0, bytes)])

\* mugfx_uniform_data_destroy(h); on storage that holds no object ~UniformData
\* either stops the process or returns and remove goes on
UniformDataDestroy(h) ==
    /\ halted = "no"
    /\ LET slot == PoolGet(upool, h)
       IN  IF slot = Null
           THEN /\ halted' = AfterLogError
                /\ lastOp' = [op |-> "uniform_data_destroy", key |-> h, outcome |-> "logged"]
                /\ UNCHANGED uniVars
           ELSE \E o \in IF upool.data[slot].tag = "value" THEN {"removed"}
                         ELSE {"removed", "crash"} :
                   /\ halted' = IF o = "crash" THEN "crash" ELSE "no"
                   /\ lastOp' = [op |-> "uniform_data_destroy", key |-> h, outcome |-> o]
                   /\ IF o = "crash" THEN UNCHANGED uniVars
                      ELSE /\ upool' = PoolRemove(upool, h)
                           /\ uLive' = uLive \ {h}
    /\ UNCHANGED <<cfgVars, argVars, logVars, drawVars, poolVars, resVars, layoutVars>>

NextUniform ==
    \/ RunCalculateLayout
    \/ UniformDataCreate
    \/ \E h \in UniHandles, name \in TriedNames, bytes \in Slices :
          SetFloat(h, name, bytes)
    \/ \E h \in UniHandles, name \in TriedNames, texture \in TextureIds :
          SetTexture(h, name, texture)
    \/ \E h \in UniHandles : UniformDataDestroy(h)

SpecUniform == InitUniform /\ [][NextUniform]_vars

(***************************************************************************)
(* Claims about the uniform data store, checked under SpecUniform          *)
(***************************************************************************)
\* the byte size of a float-family type: 4 per component
FloatFamilySize(type) ==
    IF type = "FLOAT" THEN 4
    ELSE IF type \in {"VEC2", "VEC3", "VEC4"} THEN RuleSize(type, 0)
    ELSE IF type \in MatTypes
    THEN MatColumns(type)[2] * RuleSize(MatColumns(type)[1], 0)
    ELSE 0

\* the live object a handle names
ObjectOf(h) == upool.data[IdOf(h).idx].v

\* the members of a live object that have a name
MembersOf(h, name) ==
    {i \in DOMAIN ObjectOf(h).metadata :
        ObjectOf(h).metadata[i].type # NoType /\ ObjectOf(h).metadata[i].name = name}

\* the first of them
MemberOf(h, name) ==
    ObjectOf(h).metadata[CHOOSE i \in MembersOf(h, name) : \A j \in MembersOf(h, name) : i <= j]

\* C5: after a mugfx_uniform_data_set_float of s bytes on a member m of a
\* float-family type of size s, the s bytes of the object's data at m.offset
\* are the bytes of the slice.
C5_SetFloatRoundTrip ==
    (lastOp.op = "set_float" /\ lastOp.outcome = "written") =>
        LET m == MemberOf(lastOp.key, lastOp.name)
        IN  SubSeq(ObjectOf(lastOp.key).data, m.offset + 1, m.offset + Len(lastOp.bytes))
                = lastOp.bytes

\* why a setter call has to fail: "missing" (no live object of that handle),
\* "name" (no such member), "type" (the member's type does not match the
\* setter), "length" (the slice is not of the type's size), or "none"
FailureOf(call) ==
    IF call.key \notin uLive THEN "missing"
    ELSE IF MembersOf(call.key, call.name) = {} THEN "name"
    ELSE LET m == MemberOf(call.key, call.name)
         IN  IF call.op = "set_float"
             THEN IF FloatFamilySize(m.type) = 0 THEN "type"
                  ELSE IF Len(call.bytes) # FloatFamilySize(m.type) THEN "length"
                  ELSE "none"
             ELSE IF m.type # "INT" THEN "type" ELSE "none"

\* C6: with no panic handler installed, a set_float or set_texture that has
\* to fail (object missing, unknown name, type mismatch, wrong length) logs
\* an error, leaves every uniform data object unchanged and returns.
C6_FailedSetChangesNothing ==
    [][(lastOp'.op \in {"set_float", "set_texture"} /\ ~panic_handler
            /\ FailureOf(lastOp') # "none")
          => (lastOp'.outcome = "logged" /\ upool' = upool /\ halted' = "no")]_vars

\* the descriptor with the single member vec4 "color"
IsColorDescriptor(us) ==
    /\ us[1].name = "color" /\ us[1].type = "VEC4" /\ us[1].array_size = 0
    /\ us[2].type = NoType

\* C11: for the descriptor with the single member vec4 "color" the layout has
\* size 16 and offset 0 for "color"; a uniform data object created from it has
\* a buffer of 16 zero bytes; after set_float("color", {1, 0, 0, 1}) with a
\* 16-byte slice the 16 bytes of the buffer are those of the four floats.
C11_ColorEndToEnd ==
    (IsColorDescriptor(desc.uniforms) /\ halted = "no") =>
        /\ laidOut => (desc.size = 16 /\ desc.uniforms[1].offset = 0)
        /\ (lastOp.op = "uniform_data_create" /\ lastOp.key # 0) =>
              /\ ObjectOf(lastOp.key).size = 16
              /\ ObjectOf(lastOp.key).data = [i \in 1..16 |-> 0]
        /\ (lastOp.op = "set_float" /\ lastOp.key \in uLive /\ lastOp.name = "color"
                /\ lastOp.bytes = Red) =>
              /\ lastOp.outcome = "written"
              /\ ObjectOf(lastOp.key).data = <<0, 0, 128, 63, 0, 0, 0, 0, 0, 0, 0, 0, 0, 0, 128, 63>>

\* C11 witness: the layout was computed, an object created from the descriptor
\* and "color" set to {1, 0, 0, 1}.
C11_Witness ==
    /\ IsColorDescriptor(desc.uniforms) /\ laidOut /\ halted = "no"
    /\ lastOp.op = "set_float" /\ lastOp.key \in uLive /\ lastOp.name = "color"
    /\ lastOp.bytes = Red /\ lastOp.outcome = "written"

\* C27: a set_float or set_texture that wrote, for member m of instance U,
\* changed only the bytes of U's buffer in [m.offset, m.offset + written
\* length): every other byte of U, U's metadata and size, and every other
\* slot of the pool are as before.
C27_SetWritesOwnRangeOnly ==
    [][(lastOp'.op \in {"set_float", "set_texture"} /\ lastOp'.outcome = "written") =>
          LET slot == IdOf(lastOp'.key).idx
              before == upool.data[slot].v
              after == upool'.data[slot].v
              m == before.metadata[GetUniformIndex(before.metadata, lastOp'.name)]
          IN  /\ \A i \in 0..(before.size - 1) :
                    (i < m.offset \/ i >= m.offset + Len(lastOp'.bytes)) =>
                        after.data[i + 1] = before.data[i + 1]
              /\ after.metadata = before.metadata /\ after.size = before.size
              /\ \A other \in 0..(upool.capacity - 1) :
                    other # slot => upool'.data[other] = upool.data[other]]_vars

\* C28: an instance created by mugfx_uniform_data_create, whether or not the
\* caller ran the layout calculator on the descriptor before, has a buffer of
\* the total size the calculator computes for the descriptor, and every
\* stored member offset is the offset the calculator assigns to the member,
\* so that offset + size <= buffer size for every member.
C28_StoredLayoutIsCalculated ==
    (lastOp.op = "uniform_data_create" /\ lastOp.key # 0) =>
        LET ub == ObjectOf(lastOp.key)
            calculated == CalculateLayout(desc, IF build = "unknown" THEN "identity"
                                                ELSE build).desc
        IN  /\ ub.size = calculated.size
            /\ \A i \in 1..DeclaredCount(desc.uniforms, 1) :
                  /\ ub.metadata[i].offset = calculated.uniforms[i].offset
                  /\ ub.metadata[i].offset
                         + GetUniformSize(ub.metadata[i].type, ub.metadata[i].array_size)
                       <= ub.size

(***************************************************************************)
(* SpecLog: log() under every configuration of panic handler and logging   *)
(* callback (src/src/shared.cpp)                                           *)
(***************************************************************************)
\* mugfx_severity: DEFAULT = 0, DEBUG, INFO, WARN, ERROR
SeverityError == 4

\* the severities of log_debug, log_info, log_warn, log_error
LogSeverities == 1..SeverityError

\* mutant of PanicSeverity: warnings panic as well
PanicSeverityWarn(severity) == severity >= SeverityError - 1

\* severity >= MUGFX_SEVERITY_ERROR
PanicSeverity(severity) == severity >= SeverityError

InitLog ==
    /\ panic_handler \in BOOLEAN
    /\ logging_callback \in BOOLEAN
    /\ delivered = <<>>
    /\ halted = "no"
    /\ lastOp = [op |-> "init"]
    /\ IdlePool /\ IdleRes /\ IdleLayout /\ IdleUni /\ InitBindings
    /\ IdleParams

\* log(severity, msg)
Log(severity, msg) ==
    /\ halted = "no"
    /\ Len(delivered) < MaxDelivered
    /\ IF PanicSeverity(severity) /\ panic_handler
       THEN /\ halted' = "panic"
            /\ lastOp' = [op |-> "log", severity |-> severity, msg |-> msg,
                          panic_handler_called |-> TRUE]
            /\ UNCHANGED delivered
       ELSE /\ halted' = "no"
            /\ lastOp' = [op |-> "log", severity |-> severity, msg |-> msg,
                          panic_handler_called |-> FALSE]
            /\ delivered' = IF logging_callback
                            THEN Append(delivered, [severity |-> severity, msg |-> msg])
                            ELSE delivered
    /\ UNCHANGED <<cfgVars, argVars, drawVars, poolVars, resVars, layoutVars, uniVars>>

NextLog == \E severity \in LogSeverities, msg \in 1..MaxValue : Log(severity, msg)

SpecLog == InitLog /\ [][NextLog]_vars

\* C19: with no panic handler configured an error is only passed to the
\* logging callback (if there is one) and control returns to the caller; with
\* a panic handler configured every message of severity ERROR invokes the
\* panic handler and terminates the process; a message of a severity below
\* ERROR never invokes the panic handler.
C19_ErrorReportingByConfiguration ==
    [][(lastOp'.op = "log") =>
          LET m == [severity |-> lastOp'.severity, msg |-> lastOp'.msg]
              returns == /\ halted' = "no"
                         /\ ~lastOp'.panic_handler_called
                         /\ delivered' = IF logging_callback THEN delivered \o <<m>>
                                         ELSE delivered
          IN  /\ (~panic_handler) => returns
              /\ (panic_handler /\ m.severity = 4) =>
                    (lastOp'.panic_handler_called /\ halted' = "panic")
              /\ (m.severity < 4) => returns]_vars

\* C19 witness: with both callbacks configured a warning has been delivered to
\* the logging callback and then an error has invoked the panic handler.
C19_Witness ==
    /\ panic_handler /\ logging_callback
    /\ lastOp.op = "log" /\ lastOp.severity = 4 /\ lastOp.panic_handler_called
    /\ halted = "panic"
    /\ Len(delivered) > 0 /\ delivered[1].severity = 3

(***************************************************************************)
(* SpecMaterial: mugfx_shader_create, mugfx_material_create and the two    *)
(* destroys. glLive["material"] is the set of backend program objects.     *)
(***************************************************************************)
\* the descriptors shaders and uniform data point to, by address
Descriptors ==
    ("&float_vec3_mat4" :> FloatVec3Mat4)
        @@ ("&v_tex" :> <<Decl("v", "VEC2"), Decl("tex", "INT"), ZeroDecl>>)
        @@ ("&tex" :> <<Decl("tex", "INT"), ZeroDecl>>)

\* mugfx_shader_create_params: samplers and uniform_descriptors, name filled in by create
ShaderParams ==
    { [name |-> 0, uniform_descriptors |-> <<>>, samplers |-> <<>>],
      [name |-> 0, uniform_descriptors |-> <<"&float_vec3_mat4">>, samplers |-> <<"s">>],
      [name |-> 0, uniform_descriptors |-> <<"&v_tex", "&float_vec3_mat4">>,
       samplers |-> <<>>] }

\* the uniform names a program may have; its location of a name is the position here
UniformNames == <<"a", "b", "c", "v", "tex", "s">>

\* glGetUniformLocation(prog, name) on a program that has every name but missing
GetUniformLocation(name, missing) ==
    IF name = missing \/ \A i \in 1..Len(UniformNames) : UniformNames[i] # name
    THEN -1
    ELSE (CHOOSE i \in 1..Len(UniformNames) : UniformNames[i] = name) - 1

\* for (u = 0; u < MUGFX_MAX_UNIFORMS; ++u) { if (!desc->uniforms[u].type) break; ... }
RECURSIVE TypedCount(_, _)
TypedCount(us, i) ==
    IF i > Len(us) \/ us[i].type = NoType THEN i - 1 ELSE TypedCount(us, i + 1)

\* the locations the inner loop of add_uniform_blocks asks for, in order
MemberLocations(address, missing) ==
    LET us == Descriptors[address]
    IN  [u \in 1..TypedCount(us, 1) |-> GetUniformLocation(us[u].name, missing)]

\* add_uniform_blocks that looks at the location of the first member of a block only
AddUniformBlocksFirstMember(shader, missing, blocks) ==
    LET ds == shader.uniform_descriptors
        made == [i \in 1..Len(ds) |-> [uniform_descriptor |-> ds[i],
                                      locations |-> MemberLocations(ds[i], missing)]]
    IN  [ok |-> \A i \in 1..Len(ds) :
                    Len(made[i].locations) = 0 \/ made[i].locations[1] # -1,
         blocks |-> blocks \o made]

\* add_uniform_blocks(mat, shader, start_index): nullopt on the first location -1
AddUniformBlocks(shader, missing, blocks) ==
    LET ds == shader.uniform_descriptors
        made == [i \in 1..Len(ds) |-> [uniform_descriptor |-> ds[i],
                                      locations |-> MemberLocations(ds[i], missing)]]
    IN  [ok |-> \A i \in 1..Len(ds) : \A u \in 1..Len(made[i].locations) :
                    made[i].locations[u] # -1,
         blocks |-> blocks \o made]

\* get_sampler_locations(prog, shader, locations)
GetSamplerLocations(shader, missing) ==
    \A i \in 1..Len(shader.samplers) : GetUniformLocation(shader.samplers[i], missing) # -1

\* what the backend and the parameters make of one mugfx_material_create
MaterialFaults ==
    {"none", "bad_enum", "no_program", "attach_vert", "attach_frag", "link_failed", "use_error"}

\* the uniform name the linked program lacks, if any
MissingNames == {"none", "b", "s"}

\* the Shader read through a pointer to a slot that holds no live Shader
DeadShaderOutcomes == {"crash", "attach_error", "empty"}

InitMaterial ==
    /\ pools = [k \in {"shader", "material"} |-> PoolInit(MatCapacity)]
    /\ glLive = [k \in {"shader", "material"} |-> {}]
    /\ liveH = [k \in {"shader", "material"} |-> {}]
    /\ panic_handler \in BOOLEAN
    /\ halted = "no"
    /\ lastOp = [op |-> "init"]
    /\ IdlePool /\ IdleLayout /\ IdleUni /\ IdleLog /\ InitBindings
    /\ IdleParams

\* the handles callers pass: 0 and the handle of each slot
ShaderHandles == {Combine([idx |-> i, gen |-> 1]) : i \in 0..MatCapacity - 1} \cup {0}

\* mugfx_material_create returning { 0 }: logged says log_error ran, deleted that
\* glDeleteProgram(prog) is on the path
MaterialFail(vert, frag, missing, prog, logged, deleted) ==
    LET stops == logged /\ panic_handler
    IN  /\ halted' = IF stops THEN "panic" ELSE "no"
        /\ glLive' = [glLive EXCEPT !["material"] =
                         IF prog = 0 \/ (deleted /\ ~stops) THEN @ \ {prog} ELSE @ \cup {prog}]
        /\ lastOp' = [op |-> "create", kind |-> "material", key |-> 0,
                      vert |-> vert, frag |-> frag, missing |-> missing,
                      calls |-> IF prog # 0 /\ deleted /\ ~stops
                                THEN <<[call |-> "delete", kind |-> "material", name |-> prog]>>
                                ELSE <<>>]
        /\ UNCHANGED <<pools, liveH, drawVars>>

\* mugfx_material_create(params)
MaterialCreate(vert, frag, fault, missing) ==
    /\ halted = "no"
    /\ "material" \in DOMAIN pools
    /\ UNCHANGED <<poolVars, layoutVars, uniVars, cfgVars, argVars, logVars>>
    /\ LET sp == pools["shader"]
           vs == PoolGet(sp, vert)
           fs == PoolGet(sp, frag)
       IN  IF fault \in {"bad_enum", "no_program"}
           THEN MaterialFail(vert, frag, missing, 0, TRUE, FALSE)
           ELSE \E prog \in FreshNames("material") :
                IF vs = Null \/ fs = Null
                THEN \* return { 0 } with prog still alive
                     MaterialFail(vert, frag, missing, prog, TRUE, FALSE)
                ELSE LET isDead == sp.data[vs].tag # "value" \/ sp.data[fs].tag # "value" IN
                     \E dead \in IF isDead THEN DeadShaderOutcomes ELSE {"empty"} :
                     LET
                         none == [name |-> 0, uniform_descriptors |-> <<>>, samplers |-> <<>>]
                         v == IF sp.data[vs].tag = "value" THEN sp.data[vs].v ELSE none
                         f == IF sp.data[fs].tag = "value" THEN sp.data[fs].v ELSE none
                         vb == AddUniformBlocks(v, missing, <<>>)
                         fb == AddUniformBlocks(f, missing, vb.blocks)
                     IN  IF isDead /\ dead = "crash"
                         THEN /\ halted' = "crash"
                              /\ glLive' = [glLive EXCEPT !["material"] = @ \cup {prog}]
                              /\ lastOp' = [op |-> "create", kind |-> "material", key |-> 0,
                                            vert |-> vert, frag |-> frag, missing |-> missing,
                                            calls |-> <<>>]
                              /\ UNCHANGED <<pools, liveH, drawVars>>
                         ELSE IF (isDead /\ dead = "attach_error")
                                   \/ fault \in {"attach_vert", "attach_frag", "link_failed"}
                         THEN MaterialFail(vert, frag, missing, prog, TRUE, TRUE)
                         ELSE IF ~vb.ok \/ ~fb.ok
                                   \/ ~GetSamplerLocations(v, missing)
                                   \/ ~GetSamplerLocations(f, missing)
                         THEN MaterialFail(vert, frag, missing, prog, TRUE, TRUE)
                         ELSE IF fault = "use_error" /\ panic_handler /\ prog # current.program
                         THEN \* bind_shader logs the error; its result is ignored
                              MaterialFail(vert, frag, missing, prog, TRUE, FALSE)
                         ELSE \* bind_shader(prog), the sampler uniforms, bind_shader(0)
                              /\ fault = "use_error" => prog # current.program
                              /\ current' = [current EXCEPT !.program = 0]
                              /\ glBound' = [glBound EXCEPT !.program =
                                                IF fault = "use_error" /\ current.program = 0
                                                THEN @ ELSE 0]
                              /\ ResInsertWith("material", prog,
                                     [name |-> prog, vert_shader |-> vert, frag_shader |-> frag,
                                      uniform_blocks |-> fb.blocks],
                                     [vert |-> vert, frag |-> frag, missing |-> missing])

NextMaterial ==
    \/ \E o \in {"compile_failed", "ok"}, params \in ShaderParams : ShaderCreateRecord(o, params)
    \/ \E vert, frag \in ShaderHandles, fault \in MaterialFaults, missing \in MissingNames :
          (fault = "none" \/ missing = "none") /\ MaterialCreate(vert, frag, fault, missing)
    \/ \E kind \in {"shader", "material"}, key \in ShaderHandles : Destroy(kind, key)

SpecMaterial == InitMaterial /\ [][NextMaterial]_vars

\* the member names a live shader's uniform descriptors declare
DeclaredNamesOf(h) ==
    LET shader == pools["shader"].data[IdOf(h).idx].v
    IN  UNION { { Descriptors[shader.uniform_descriptors[i]][u].name :
                    u \in DOMAIN Descriptors[shader.uniform_descriptors[i]] } :
                i \in DOMAIN shader.uniform_descriptors } \ {NullName}

\* a material create whose vertex and fragment shader are live and whose program
\* lacks a member name one of them declares
UnresolvedCreate(op) ==
    /\ op.op = "create" /\ op.kind = "material"
    /\ op.vert \in liveH["shader"] /\ op.frag \in liveH["shader"]
    /\ op.missing \in DeclaredNamesOf(op.vert) \cup DeclaredNamesOf(op.frag)

C13_FailedCreateDeletesProgram ==
    [][(halted = "no" /\ halted' = "no"
          /\ lastOp'.op = "create" /\ lastOp'.kind = "material" /\ lastOp'.key = 0)
         => glLive'["material"] = glLive["material"]]_vars

(***************************************************************************)
(* SpecDraw: mugfx_draw with a material, a geometry, a texture and a       *)
(* uniform data object, and the calls that make and destroy them.          *)
(* lastOp.calls of a draw are the backend calls it made, in order.         *)
(***************************************************************************)
\* current_texture_2d.size()
TextureUnits == 64

GeometryOutcomes ==
    {"bad_draw_mode", "bad_buffer", "bad_attribute", "vertex_count", "bad_index",
     "bind_error", "enable_error", "pointer_error", "ok"}

\* mugfx_geometry_create(params); indexed: params.index_buffer is given
GeometryCreate(outcome, indexed) ==
    /\ halted = "no"
    /\ "geometry" \in DOMAIN pools
    /\ UNCHANGED <<poolVars, layoutVars, uniVars, cfgVars, argVars, logVars, drawVars>>
    /\ IF outcome \in {"bad_draw_mode", "bad_buffer", "bad_attribute", "vertex_count",
                       "bad_index"}
       THEN ResFailEarly("geometry")
       ELSE \E name \in FreshNames("geometry") :
                IF outcome # "ok"
                THEN ResFailDelete("geometry", name)
                ELSE ResInsertRecord("geometry", name,
                                     [name |-> name, index_type |-> indexed])

\* the bytes one element of a glUniform* call of this type takes
GlUniformBytes(type) ==
    CASE type \in {"INT", "UINT"} -> 4
      [] type \in {"IVEC2", "UVEC2"} -> 2 * 4
      [] type \in {"IVEC3", "UVEC3"} -> 3 * 4
      [] type \in {"IVEC4", "UVEC4"} -> 4 * 4
      [] OTHER -> GetFloatUniformDataSize(type)

\* the n bytes at data + offset
ReadBytes(data, offset, n) ==
    [k \in 1..n |-> IF offset + k <= Len(data) THEN data[offset + k] ELSE 0]

\* set_uniform(uniform, loc, data): the glUniform* call of the switch
SetUniform(uniform, loc, data) ==
    LET count == IF uniform.array_size # 0 THEN uniform.array_size ELSE 1
    IN  IF uniform.type = "INT"
        THEN \* glUniform1i(loc, 0)
             [call |-> "glUniform", type |-> "INT", loc |-> loc, count |-> 1,
              value |-> Bytes32(0)]
        ELSE [call |-> "glUniform", type |-> uniform.type, loc |-> loc, count |-> count,
              value |-> ReadBytes(data, uniform.offset, count * GlUniformBytes(uniform.type))]

\* find_uniform_block(mat, desc): the index of the first block of that descriptor
FindUniformBlock(mat, address) ==
    {b \in DOMAIN mat.uniform_blocks :
        /\ mat.uniform_blocks[b].uniform_descriptor = address
        /\ \A c \in 1..(b - 1) : mat.uniform_blocks[c].uniform_descriptor # address}

\* the loop of apply_uniforms from member i on: the calls made so far and how it
\* ends: "go" (returned true), "logged" (log_error, returned false)
RECURSIVE ApplyUniforms(_, _, _, _, _)
ApplyUniforms(mat, ud, i, calls, fault) ==
    IF i > Len(ud.metadata) \/ ud.metadata[i].type = NoType
    THEN [calls |-> calls, end |-> "go", error |-> FALSE]
    ELSE IF FindUniformBlock(mat, ud.descriptor) = {} \/ ud.metadata[i].type \notin UniformTypes
    THEN [calls |-> calls, end |-> "logged", error |-> FALSE]
    ELSE LET ub == mat.uniform_blocks[CHOOSE b \in FindUniformBlock(mat, ud.descriptor) : TRUE]
             made == calls \o <<SetUniform(ud.metadata[i], ub.locations[i], ud.data)>>
         IN  IF fault = "uniform"
             THEN [calls |-> made, end |-> "logged", error |-> TRUE]
             ELSE ApplyUniforms(mat, ud, i + 1, made, fault)

\* the loop over bindings of mugfx_draw from binding i on; st.end is "go", "logged",
\* or "dead" when a handle led to storage that holds no object
RECURSIVE BindingsLoop(_, _, _, _, _)
BindingsLoop(mat, bindings, i, st, fault) ==
    IF i > Len(bindings) \/ st.end # "go" THEN st
    ELSE LET b == bindings[i]
         IN  IF b.type = "UNIFORM_DATA"
             THEN LET slot == PoolGet(upool, b.id)
                  IN  IF slot = Null THEN [st EXCEPT !.end = "logged"]
                      ELSE IF upool.data[slot].tag # "value" THEN [st EXCEPT !.end = "dead"]
                      ELSE LET r == ApplyUniforms(mat, upool.data[slot].v, 1, st.calls, fault)
                           IN  BindingsLoop(mat, bindings, i + 1,
                                   [st EXCEPT !.calls = r.calls, !.end = r.end,
                                              !.error = r.error], fault)
             ELSE IF b.type = "TEXTURE"
             THEN LET p == pools["texture"]
                      slot == PoolGet(p, b.id)
                  IN  IF slot = Null THEN [st EXCEPT !.end = "logged"]
                      ELSE IF p.data[slot].tag # "value" THEN [st EXCEPT !.end = "dead"]
                      ELSE LET name == p.data[slot].v.name
                               bind == <<[call |-> "glBindTexture", unit |-> b.binding,
                                          name |-> name]>>
                           IN  IF b.binding >= TextureUnits THEN [st EXCEPT !.end = "logged"]
                               ELSE IF name = st.current.texture_2d
                               THEN BindingsLoop(mat, bindings, i + 1, st, fault)
                               ELSE IF fault = "bind_texture"
                               THEN [st EXCEPT !.calls = @ \o bind, !.end = "logged",
                                               !.error = TRUE]
                               ELSE BindingsLoop(mat, bindings, i + 1,
                                        [st EXCEPT !.calls = @ \o bind,
                                                   !.current.texture_2d = name,
                                                   !.glBound.texture_2d = name], fault)
             ELSE BindingsLoop(mat, bindings, i + 1, st, fault)

\* the backend error, if any, that glGetError reports during one mugfx_draw
DrawFaults == {"none", "use_program", "uniform", "bind_texture", "bind_vao"}

\* what a draw does once it uses storage that holds no object
DeadDrawOutcomes == {"crash", "drawn", "returned"}

\* how a mugfx_draw ends: the calls it made, whether it logged, whether the backend
\* reported an error, and the bind caches afterwards
DrawEnds(material, geometry, bindings, calls, logged, error, st) ==
    /\ halted' = IF logged THEN AfterLogError ELSE "no"
    /\ lastOp' = [op |-> "draw", material |-> material, geometry |-> geometry,
                  bindings |-> bindings, calls |-> calls, logged |-> logged,
                  error |-> error]
    /\ current' = st.current
    /\ glBound' = st.glBound

DrawDead(material, geometry, bindings, st) ==
    \E o \in DeadDrawOutcomes :
        IF o = "crash"
        THEN /\ halted' = "crash"
             /\ lastOp' = [op |-> "draw", material |-> material, geometry |-> geometry,
                           bindings |-> bindings, calls |-> st.calls, logged |-> FALSE,
                           error |-> FALSE]
             /\ current' = st.current
             /\ glBound' = st.glBound
        ELSE DrawEnds(material, geometry, bindings,
                      IF o = "drawn" THEN st.calls \o <<[call |-> "glDrawArrays"]>>
                      ELSE st.calls, FALSE, FALSE, st)

\* mugfx_draw(material, geometry, bindings, Len(bindings))
Draw(material, geometry, bindings, fault) ==
    /\ halted = "no"
    /\ {"material", "geometry", "texture"} \subseteq DOMAIN pools
    /\ UNCHANGED <<poolVars, resVars, layoutVars, uniVars, cfgVars, argVars, logVars>>
    /\ LET mp == pools["material"]
           gp == pools["geometry"]
           ms == PoolGet(mp, material)
           gs == PoolGet(gp, geometry)
           st0 == [calls |-> <<>>, current |-> current, glBound |-> glBound,
                   end |-> "go", error |-> FALSE]
       IN  IF ms = Null \/ gs = Null
           THEN DrawEnds(material, geometry, bindings, <<>>, TRUE, FALSE, st0)
           ELSE IF mp.data[ms].tag # "value" \/ gp.data[gs].tag # "value"
           THEN DrawDead(material, geometry, bindings, st0)
           ELSE LET mat == mp.data[ms].v
                    geom == gp.data[gs].v
                    use == IF mat.name # current.program
                           THEN <<[call |-> "glUseProgram", name |-> mat.name]>> ELSE <<>>
                    st1 == [st0 EXCEPT !.calls = use, !.current.program = mat.name,
                                       !.glBound.program = mat.name]
                    st == BindingsLoop(mat, bindings, 1, st1, fault)
                    vao == IF geom.name # st.current.vao
                           THEN <<[call |-> "glBindVertexArray", name |-> geom.name]>>
                           ELSE <<>>
                    draw == <<[call |-> IF geom.index_type THEN "glDrawElements"
                                        ELSE "glDrawArrays"]>>
                    unbind == IF geom.name # 0
                              THEN <<[call |-> "glBindVertexArray", name |-> 0]>> ELSE <<>>
                IN  IF use # <<>> /\ fault = "use_program"
                    THEN DrawEnds(material, geometry, bindings, use, TRUE, TRUE, st0)
                    ELSE IF st.end = "dead"
                    THEN DrawDead(material, geometry, bindings, st)
                    ELSE IF st.end = "logged"
                    THEN DrawEnds(material, geometry, bindings, st.calls, TRUE, st.error, st)
                    ELSE IF vao # <<>> /\ fault = "bind_vao"
                    THEN DrawEnds(material, geometry, bindings, st.calls \o vao, TRUE, TRUE, st)
                    ELSE DrawEnds(material, geometry, bindings,
                                  st.calls \o vao \o draw \o unbind, FALSE, FALSE, st)

\* the shader and the material the draws use: one shader with the descriptor &tex,
\* used as vertex and as fragment shader of one material, as mugfx_shader_create and
\* mugfx_material_create leave them in fresh pools
SetupHandle == PoolInsertKey(PoolInit(MatCapacity))
SetupShader == [name |-> 1, uniform_descriptors |-> <<"&tex">>, samplers |-> <<>>]
SetupMaterial ==
    [name |-> 1, vert_shader |-> SetupHandle, frag_shader |-> SetupHandle,
     uniform_blocks |->
         AddUniformBlocks(SetupShader, "none",
                          AddUniformBlocks(SetupShader, "none", <<>>).blocks).blocks]

\* the handles callers pass: 0 and the handle of each slot
DrawHandles == {Combine([idx |-> i, gen |-> 1]) : i \in 0..MatCapacity - 1} \cup {0}

\* the binding lists callers draw with
UniformDataBinding(id) == [type |-> "UNIFORM_DATA", id |-> id]
TextureBinding(id, binding) == [type |-> "TEXTURE", id |-> id, binding |-> binding]
FullBindings(h) == <<UniformDataBinding(h), TextureBinding(h, 0)>>
DrawBindings ==
    { <<>>, <<UniformDataBinding(0)>>, <<TextureBinding(0, 0)>>, <<[type |-> "BUFFER"]>> }
        \cup UNION { { FullBindings(h), <<TextureBinding(h, TextureUnits)>> } :
                        h \in DrawHandles \ {0} }

\* the state after mugfx_init, one mugfx_shader_create and one mugfx_material_create
InitDraw ==
    /\ pools = [k \in {"shader", "material", "geometry", "texture"} |->
                   CASE k = "shader" -> PoolInsert(PoolInit(MatCapacity), SetupShader)
                     [] k = "material" -> PoolInsert(PoolInit(MatCapacity), SetupMaterial)
                     [] OTHER -> PoolInit(MatCapacity)]
    /\ glLive = [k \in {"shader", "material", "geometry", "texture"} |->
                    IF k \in {"shader", "material"} THEN {1} ELSE {}]
    /\ liveH = [k \in {"shader", "material", "geometry", "texture"} |->
                   IF k \in {"shader", "material"} THEN {SetupHandle} ELSE {}]
    /\ upool = PoolInit(MatCapacity)
    /\ uLive = {}
    /\ panic_handler = FALSE
    /\ halted = "no"
    /\ lastOp = [op |-> "init"]
    /\ IdlePool /\ IdleLayout /\ IdleLog /\ InitBindings
    /\ IdleParams

NextDraw ==
    \/ GeometryCreate("ok", FALSE)
    \/ TextureCreate("ok")
    \/ \E kind \in {"geometry", "texture"}, key \in DrawHandles : Destroy(kind, key)
    \/ \E address \in {"&tex", "&v_tex"} :
          UniformDataCreateFrom(address, [uniforms |-> Descriptors[address], size |-> 0])
    \/ \E h \in DrawHandles, texture \in TextureIds : SetTexture(h, "tex", texture)
    \/ \E material, geometry \in DrawHandles, bindings \in DrawBindings, fault \in DrawFaults :
          /\ fault # "none" => bindings = FullBindings(material)
          /\ Draw(material, geometry, bindings, fault)

SpecDraw == InitDraw /\ [][NextDraw]_vars

\* the objects a draw names, when its handles are live
MaterialOf(op) == pools["material"].data[IdOf(op.material).idx].v
UniformDataOf(b) == upool.data[IdOf(b.id).idx].v
TextureOf(b) == pools["texture"].data[IdOf(b.id).idx].v

\* the uniform blocks of the draw's material that have the descriptor of the binding
BlocksOf(op, b) ==
    {k \in DOMAIN MaterialOf(op).uniform_blocks :
        MaterialOf(op).uniform_blocks[k].uniform_descriptor = UniformDataOf(b).descriptor}

\* a handle of the draw is not live, a texture unit is out of range, or the
\* descriptor of a uniform data binding matches no uniform block of the material
BindingFailure(op) ==
    \/ op.material \notin liveH["material"]
    \/ op.geometry \notin liveH["geometry"]
    \/ \E i \in DOMAIN op.bindings :
          LET b == op.bindings[i]
          IN  \/ b.type = "UNIFORM_DATA" /\ b.id \notin uLive
              \/ b.type = "UNIFORM_DATA" /\ b.id \in uLive
                    /\ op.material \in liveH["material"] /\ BlocksOf(op, b) = {}
              \/ b.type = "TEXTURE" /\ b.id \notin liveH["texture"]
              \/ b.type = "TEXTURE" /\ b.binding >= TextureUnits

\* the positions of the draw commands among the calls of a draw
DrawCommands(calls) ==
    {j \in DOMAIN calls : calls[j].call \in {"glDrawArrays", "glDrawElements"}}

\* C15: with no panic handler, a mugfx_draw in which a handle is not live, a texture
\* unit is out of range, a descriptor matches no uniform block or the backend
\* reports an error logs the error and returns, issues no draw command and changes
\* no pool and no uniform data
C15_FailedDrawLogsAndReturns ==
    [][(halted = "no" /\ ~panic_handler /\ lastOp'.op = "draw"
          /\ (BindingFailure(lastOp') \/ lastOp'.error))
         => (/\ halted' = "no"
             /\ lastOp'.logged
             /\ DrawCommands(lastOp'.calls) = {}
             /\ pools' = pools
             /\ upool' = upool)]_vars

\* every handle of the draw is live
LiveDraw(op) ==
    /\ op.op = "draw"
    /\ op.material \in liveH["material"]
    /\ op.geometry \in liveH["geometry"]
    /\ \A i \in DOMAIN op.bindings :
          LET b == op.bindings[i]
          IN  /\ b.type = "UNIFORM_DATA" => b.id \in uLive /\ BlocksOf(op, b) # {}
              /\ b.type = "TEXTURE" => b.id \in liveH["texture"]

\* the declared members of a uniform data object
DeclaredMembers(ud) ==
    {i \in DOMAIN ud.metadata : \A k \in 1..i : ud.metadata[k].type # NoType}

\* the location of member i of the uniform data of binding b in the draw's material
LocationOf(op, b, i) ==
    MaterialOf(op).uniform_blocks[CHOOSE k \in BlocksOf(op, b) : TRUE].locations[i]

\* C16: a mugfx_draw with live handles that issues a draw command issues exactly
\* one, and before it the material's program is in use, every member of every uniform
\* data binding has had its set-uniform call, and the texture of every texture
\* binding is the one bound (a bind the cache saved counts when the backend still
\* has that binding)
C16_BindingsAppliedBeforeDraw ==
    (LiveDraw(lastOp) /\ DrawCommands(lastOp.calls) # {}) =>
        /\ Cardinality(DrawCommands(lastOp.calls)) = 1
        /\ glBound.program = MaterialOf(lastOp).name
        /\ \A i \in DOMAIN lastOp.bindings :
              LET b == lastOp.bindings[i]
              IN  /\ b.type = "TEXTURE" => glBound.texture_2d = TextureOf(b).name
                  /\ b.type = "UNIFORM_DATA" =>
                        \A m \in DeclaredMembers(UniformDataOf(b)) :
                           \E j \in DOMAIN lastOp.calls, d \in DrawCommands(lastOp.calls) :
                              /\ j < d
                              /\ lastOp.calls[j].call = "glUniform"
                              /\ lastOp.calls[j].loc = LocationOf(lastOp, b, m)

\* C17: in a mugfx_draw with live handles, every set-uniform call for a member of a
\* uniform data binding passes the bytes of the object's buffer at the member's
\* offset, with the count array_size, or 1 when array_size is 0
C17_UniformValuesFromBuffer ==
    LiveDraw(lastOp) =>
        \A i \in DOMAIN lastOp.bindings :
           LET b == lastOp.bindings[i]
           IN  b.type = "UNIFORM_DATA" =>
                  \A m \in DeclaredMembers(UniformDataOf(b)) :
                  \A j \in DOMAIN lastOp.calls :
                     LET c == lastOp.calls[j]
                         u == UniformDataOf(b).metadata[m]
                         count == IF u.array_size # 0 THEN u.array_size ELSE 1
                     IN  (c.call = "glUniform" /\ c.loc = LocationOf(lastOp, b, m)) =>
                            /\ c.count = count
                            /\ c.value = SubSeq(UniformDataOf(b).data, u.offset + 1,
                                                u.offset + count * GlUniformBytes(u.type))

(***************************************************************************)
(* SpecBuffer: mugfx_buffer_create / mugfx_buffer_update /                 *)
(* mugfx_buffer_destroy (src/src/opengl/opengl.cpp). size_t is an unsigned *)
(* integer of SizeWidth bits; a Buffer is its object name and its size.    *)
(***************************************************************************)
SizeModulus == 2 ^ SizeWidth

\* the value an expression has as a size_t
SizeT(x) == x % SizeModulus

\* std::min
Min(a, b) == IF b < a THEN b ELSE a

\* std::min(offset + data.length, buf->size) - offset
UpdateLength(offset, data_length, size) ==
    SizeT(Min(SizeT(offset + data_length), size) - offset)

\* the sizes, offsets and slice lengths callers pass
Sizes == 0..(SizeModulus - 1)

\* the buffer handles callers pass
BufHandles == {Combine([idx |-> i, gen |-> 1]) : i \in 0..(BufCapacity - 1)} \cup {0}

\* the size mugfx_buffer_update reads through the pointer get() returned: the
\* stored one, or any value when the slot holds no live record
ReadSizes(p, slot) == IF p.data[slot].tag = "value" THEN {p.data[slot].v.size} ELSE Sizes

InitBuffer ==
    /\ pools = [k \in {"buffer"} |-> PoolInit(BufCapacity)]
    /\ glLive = [k \in {"buffer"} |-> {}]
    /\ liveH = [k \in {"buffer"} |-> {}]
    /\ panic_handler = FALSE
    /\ halted = "no"
    /\ lastOp = [op |-> "init"]
    /\ IdlePool /\ IdleLayout /\ IdleUni /\ IdleLog /\ InitBindings
    /\ IdleParams

\* how mugfx_buffer_update ends: the upload calls it made, whether it logged
UpdateEnds(key, offset, data_length, data, calls, logged) ==
    /\ halted' = IF logged THEN AfterLogError ELSE "no"
    /\ lastOp' = [op |-> "buffer_update", key |-> key, offset |-> offset,
                  length |-> data_length, data |-> data, calls |-> calls, logged |-> logged]
    /\ UNCHANGED <<poolVars, resVars, layoutVars, uniVars, cfgVars, argVars, logVars, drawVars>>

\* mugfx_buffer_update(key, offset, {data, data_length}); data: the slice's
\* pointer is not null. bind_buffer fails or not (bind_ok); glBufferSubData
\* reports GL_INVALID_VALUE when offset + length reaches past the data store.
BufferUpdate(key, offset, data_length, data, bind_ok) ==
    /\ halted = "no"
    /\ LET p == pools["buffer"]
           slot == PoolGet(p, key)
       IN  IF slot = Null
           THEN bind_ok /\ UpdateEnds(key, offset, data_length, data, <<>>, TRUE)
           ELSE IF ~bind_ok
           THEN UpdateEnds(key, offset, data_length, data, <<>>, TRUE)
           ELSE \E size \in ReadSizes(p, slot) :
                   IF ~data
                   THEN UpdateEnds(key, offset, data_length, data,
                            <<[call |-> "glBufferData", size |-> size]>>, FALSE)
                   ELSE LET length == UpdateLength(offset, data_length, size)
                        IN  UpdateEnds(key, offset, data_length, data,
                                <<[call |-> "glBufferSubData", offset |-> offset,
                                   length |-> length]>>,
                                offset + length > size)

NextBuffer ==
    \/ \E o \in {"data_error", "ok"}, length \in Sizes :
          BufferCreateRecord(o, [name |-> 0, size |-> length], [length |-> length])
    \/ \E key \in BufHandles, offset \in Sizes, data_length \in Sizes, data \in BOOLEAN,
          bind_ok \in BOOLEAN :
          BufferUpdate(key, offset, data_length, data, bind_ok)
    \/ \E key \in BufHandles : Destroy("buffer", key)

SpecBuffer == InitBuffer /\ [][NextBuffer]_vars

\* C30: for every live buffer of size S and every mugfx_buffer_update(buffer,
\* offset, data) with non-null data, the length passed to glBufferSubData
\* satisfies offset + length <= S, for every offset and data.length, also
\* with offset > S and with offset + data.length overflowing size_t.
C30_UpdateStaysInBuffer ==
    (lastOp.op = "buffer_update" /\ lastOp.data /\ lastOp.key \in liveH["buffer"]) =>
        \A i \in DOMAIN lastOp.calls :
            lastOp.calls[i].call = "glBufferSubData" =>
                lastOp.calls[i].offset + lastOp.calls[i].length
                    <= pools["buffer"].data[IdOf(lastOp.key).idx].v.size

(***************************************************************************)
(* SpecDefaults: default_init of the *_create parameter structs            *)
(* (src/src/shared.cpp). An enum field is the name of its enumerator       *)
(* without the prefix; "DEFAULT" is the enumerator 0 of every enum.        *)
(***************************************************************************)
\* set_default(v, default_value): if (v == T {}) v = default_value
SetDefault(v, default_value) == IF v = "DEFAULT" THEN default_value ELSE v

\* default_init(mugfx_texture_create_params&)
DefaultInitTexture(p) ==
    LET p1 == [p EXCEPT !.format = SetDefault(@, "RGBA8")]
        p2 == [p1 EXCEPT !.wrap_s = SetDefault(@, "REPEAT")]
        p3 == [p2 EXCEPT !.wrap_t = SetDefault(@, p2.wrap_s)]
        p4 == [p3 EXCEPT !.min_filter =
                   SetDefault(@, IF p3.generate_mipmaps THEN "LINEAR_MIPMAP_LINEAR"
                                                        ELSE "LINEAR")]
        p5 == [p4 EXCEPT !.mag_filter = SetDefault(@, "LINEAR")]
    IN  [p5 EXCEPT !.data_format = SetDefault(@, p5.format)]

\* default_init(mugfx_material_create_params&)
DefaultInitMaterial(p) ==
    [depth_func |-> SetDefault(p.depth_func, "LEQUAL"),
     write_mask |-> SetDefault(p.write_mask, "RGBA | DEPTH"),
     cull_face |-> SetDefault(p.cull_face, "NONE"),
     src_blend |-> SetDefault(p.src_blend, "ONE"),
     dst_blend |-> SetDefault(p.dst_blend, "ZERO"),
     polygon_mode |-> SetDefault(p.polygon_mode, "FILL"),
     stencil_func |-> SetDefault(p.stencil_func, "ALWAYS")]

\* default_init(mugfx_buffer_create_params&)
DefaultInitBuffer(p) ==
    [target |-> SetDefault(p.target, "ARRAY"), usage |-> SetDefault(p.usage, "STATIC")]

\* default_init(mugfx_uniform_data_create_params&)
DefaultInitUniformData(p) == [usage_hint |-> SetDefault(p.usage_hint, "FRAME")]

\* default_init(mugfx_geometry_create_params&)
DefaultInitGeometry(p) == [draw_mode |-> SetDefault(p.draw_mode, "TRIANGLES")]

\* the overload the call resolves to
DefaultInit(kind, p) ==
    CASE kind = "texture" -> DefaultInitTexture(p)
      [] kind = "material" -> DefaultInitMaterial(p)
      [] kind = "buffer" -> DefaultInitBuffer(p)
      [] kind = "uniform_data" -> DefaultInitUniformData(p)
      [] kind = "geometry" -> DefaultInitGeometry(p)

\* the structs callers pass: every field with a default is unset, holds the
\* value default_init would store, or holds another enumerator
TextureParams ==
    [format : {"DEFAULT", "RGBA8", "R8"},
     wrap_s : {"DEFAULT", "REPEAT", "CLAMP_TO_EDGE"},
     wrap_t : {"DEFAULT", "REPEAT", "CLAMP_TO_EDGE"},
     min_filter : {"DEFAULT", "LINEAR", "NEAREST"},
     mag_filter : {"DEFAULT", "LINEAR", "NEAREST"},
     generate_mipmaps : BOOLEAN,
     data_format : {"DEFAULT", "RGBA8", "R8"}]

MaterialParams ==
    [depth_func : {"DEFAULT", "LEQUAL", "ALWAYS"},
     write_mask : {"DEFAULT", "RGBA | DEPTH", "R"},
     cull_face : {"DEFAULT", "NONE", "BACK"},
     src_blend : {"DEFAULT", "ONE", "SRC_ALPHA"},
     dst_blend : {"DEFAULT", "ZERO", "ONE_MINUS_SRC_ALPHA"},
     polygon_mode : {"DEFAULT", "FILL", "LINE"},
     stencil_func : {"DEFAULT", "ALWAYS", "EQUAL"}]

BufferParams ==
    [target : {"DEFAULT", "ARRAY", "INDEX"}, usage : {"DEFAULT", "STATIC", "DYNAMIC"}]

UniformDataParams == [usage_hint : {"DEFAULT", "FRAME", "DRAW"}]

GeometryParams == [draw_mode : {"DEFAULT", "TRIANGLES", "LINES"}]

ParamsOf(kind) ==
    CASE kind = "texture" -> TextureParams
      [] kind = "material" -> MaterialParams
      [] kind = "buffer" -> BufferParams
      [] kind = "uniform_data" -> UniformDataParams
      [] kind = "geometry" -> GeometryParams

ParamKinds == {"texture", "material", "buffer", "uniform_data", "geometry"}

InitDefaults ==
    /\ \E kind \in ParamKinds : \E p \in ParamsOf(kind) : create_params = [kind |-> kind, p |-> p]
    /\ halted = "no"
    /\ lastOp = [op |-> "caller"]
    /\ panic_handler = FALSE
    /\ IdlePool /\ IdleRes /\ IdleLayout /\ IdleUni /\ IdleLog /\ InitBindings

\* default_init(params), the first statement of every mugfx_*_create
DefaultInitCall ==
    /\ halted = "no"
    /\ lastOp.op = "caller"
    /\ create_params' = [create_params EXCEPT !.p = DefaultInit(create_params.kind, @)]
    /\ lastOp' = [op |-> "default_init", given |-> create_params.p]
    /\ UNCHANGED <<poolVars, resVars, layoutVars, uniVars, cfgVars, logVars, drawVars, halted>>

NextDefaults == DefaultInitCall

SpecDefaults == InitDefaults /\ [][NextDefaults]_vars

\* the defaults the comments of mugfx.h give, for the struct as the caller
\* passed it
Documented(kind, p) ==
    CASE kind = "texture" ->
             [format |-> "RGBA8",
              wrap_s |-> "REPEAT",
              wrap_t |-> IF p.wrap_s = "DEFAULT" THEN "REPEAT" ELSE p.wrap_s,
              min_filter |-> IF p.generate_mipmaps THEN "LINEAR" ELSE "LINEAR_MIPMAP_LINEAR",
              mag_filter |-> "LINEAR",
              data_format |-> IF p.format = "DEFAULT" THEN "RGBA8" ELSE p.format]
      [] kind = "material" ->
             [depth_func |-> "LEQUAL", write_mask |-> "RGBA | DEPTH", cull_face |-> "BACK",
              src_blend |-> "ONE", dst_blend |-> "ZERO", polygon_mode |-> "FILL",
              stencil_func |-> "ALWAYS"]
      [] kind = "buffer" -> [target |-> "ARRAY", usage |-> "STATIC"]
      [] kind = "uniform_data" -> [usage_hint |-> "FRAME"]
      [] kind = "geometry" -> [draw_mode |-> "TRIANGLES"]

\* C21: for every create-params field with a documented default, default_init
\* stores exactly the documented default when the field is unset (0) and
\* leaves a set field as it is; a material with cull_face unset gets BACK, a
\* texture with min_filter unset the documented value for its
\* generate_mipmaps.
C21_DocumentedDefaults ==
    lastOp.op = "default_init" =>
        \A f \in DOMAIN Documented(create_params.kind, lastOp.given) :
            create_params.p[f] = IF lastOp.given[f] = "DEFAULT"
                          THEN Documented(create_params.kind, lastOp.given)[f]
                          ELSE lastOp.given[f]

====
